---- MODULE Spec2Model ----
(***************************************************************************)
(* Audience analysis engine of src/analytics.py (class AudienceAnalyzer):  *)
(* the aggregators over a batch of member profiles, the quality scorer,    *)
(* the recommendation rules, the fan-out/join of analyze_audience and the  *)
(* comparison of two reports.                                              *)
(*                                                                         *)
(* Conventions of the model                                                *)
(*  - A Python str is a sequence of Unicode code points.  ASCII text is    *)
(*    written U("python"); Cyrillic text is written Cyr("sport") in the    *)
(*    one-letter-per-letter transliteration of CyrCode, so that substring  *)
(*    and equality tests are those of the original text.  Dictionary keys  *)
(*    that are Cyrillic in the source are TLA+ strings in the same         *)
(*    transliteration ("do 18", "stolicy", "menee_dnq").                   *)
(*  - A number the code rounds to one decimal is held as an integer        *)
(*    number of tenths: 33.3 is 333, 100.0 is 1000.                        *)
(*  - A Python value of a profile field is a tagged record (PyNone, PyInt, *)
(*    PyStr, PyDict, PyList); a profile is a function from field names to  *)
(*    such values, and a missing key is a name outside its DOMAIN.         *)
(***************************************************************************)
EXTENDS Integers, Sequences, FiniteSets, TLC

----------------------------------------------------------------------------
(* Bounds of the model.                                                    *)

\* longest batch of the gender scenarios (SpecGender)
MaxGender == 10
\* longest batch of the age scenarios (SpecAge)
MaxAge == 4
\* longest batch of the interest scenarios (SpecInterests)
MaxInterests == 2
\* longest batch run through the whole of analyze_audience (Spec)
MaxBatch == 2

\* the profiles of a batch whose report is compared
MaxCompare == 2
\* the profiles of a city outside every list, and those without a city, in a
\* batch of SpecGeography: at most MaxGeo of each
MaxGeo == 1
\* longest batch of the activity scenarios (SpecActivity)
MaxActivity == 3
\* the /analyze commands one user sends (SpecBot)
MaxCommands == 3
\* the rows the table analyses holds at once (SpecDatabase)
MaxRows == 2
\* the days the database clock runs (SpecDatabase)
MaxClock == 2

----------------------------------------------------------------------------
(* Text.                                                                   *)

AsciiCode ==
    "0" :> 48 @@ "1" :> 49 @@ "2" :> 50 @@ "3" :> 51 @@ "4" :> 52 @@ "5" :> 53 @@ "6" :> 54 @@
    "7" :> 55 @@ "8" :> 56 @@ "9" :> 57 @@ "a" :> 97 @@ "b" :> 98 @@ "c" :> 99 @@ "d" :> 100 @@
    "e" :> 101 @@ "f" :> 102 @@ "g" :> 103 @@ "h" :> 104 @@ "i" :> 105 @@ "j" :> 106 @@ "k" :> 107 @@
    "l" :> 108 @@ "m" :> 109 @@ "n" :> 110 @@ "o" :> 111 @@ "p" :> 112 @@ "q" :> 113 @@ "r" :> 114 @@
    "s" :> 115 @@ "t" :> 116 @@ "u" :> 117 @@ "v" :> 118 @@ "w" :> 119 @@ "x" :> 120 @@ "y" :> 121 @@
    "z" :> 122 @@ "A" :> 65 @@ "B" :> 66 @@ "C" :> 67 @@ "D" :> 68 @@ "E" :> 69 @@ "F" :> 70 @@
    "G" :> 71 @@ "H" :> 72 @@ "I" :> 73 @@ "J" :> 74 @@ "K" :> 75 @@ "L" :> 76 @@ "M" :> 77 @@
    "N" :> 78 @@ "O" :> 79 @@ "P" :> 80 @@ "Q" :> 81 @@ "R" :> 82 @@ "S" :> 83 @@ "T" :> 84 @@
    "U" :> 85 @@ "V" :> 86 @@ "W" :> 87 @@ "X" :> 88 @@ "Y" :> 89 @@ "Z" :> 90 @@ " " :> 32 @@
    "." :> 46 @@ "-" :> 45 @@ "+" :> 43 @@ "_" :> 95 @@ "," :> 44

CyrCode ==
    "a" :> 1072 @@ "b" :> 1073 @@ "w" :> 1074 @@ "g" :> 1075 @@ "d" :> 1076 @@ "e" :> 1077 @@
    "v" :> 1078 @@ "z" :> 1079 @@ "i" :> 1080 @@ "j" :> 1081 @@ "k" :> 1082 @@ "l" :> 1083 @@
    "m" :> 1084 @@ "n" :> 1085 @@ "o" :> 1086 @@ "p" :> 1087 @@ "r" :> 1088 @@ "s" :> 1089 @@
    "t" :> 1090 @@ "u" :> 1091 @@ "f" :> 1092 @@ "h" :> 1093 @@ "c" :> 1094 @@ "C" :> 1095 @@
    "S" :> 1096 @@ "W" :> 1097 @@ "Q" :> 1098 @@ "y" :> 1099 @@ "x" :> 1100 @@ "E" :> 1101 @@
    "U" :> 1102 @@ "q" :> 1103 @@ "O" :> 1105 @@ "-" :> 45 @@ " " :> 32 @@ "," :> 44


\* a local name: F applied to the value v that the name stands for
With(v, F(_)) == F(v)

\* the str written with the ASCII characters of s
U(s) == [i \in 1..Len(s) |-> AsciiCode[SubSeq(s, i, i)]]

\* the Cyrillic str whose transliteration is s
Cyr(s) == [i \in 1..Len(s) |-> CyrCode[SubSeq(s, i, i)]]

\* str.lower() on one code point: A-Z, the Cyrillic capitals and capital IO
lower_char(c) ==
    IF (c >= 65 /\ c <= 90) \/ (c >= 1040 /\ c <= 1071) THEN c + 32
    ELSE IF c = 1025 THEN 1105
    ELSE c

\* str.lower()
lower(text) == [i \in 1..Len(text) |-> lower_char(text[i])]

\* keyword in text: keyword occurs as a substring of text
Contains(text, keyword) ==
    \/ Len(keyword) = 0
    \/ \E i \in 1..(Len(text) - Len(keyword) + 1) :
           /\ text[i] = keyword[1]
           /\ SubSeq(text, i, i + Len(keyword) - 1) = keyword

\* round(num / den, 0) for den > 0, ties to the even neighbour, as round()
\* resolves a tie on a value the float holds exactly
RoundHalfEven(num, den) ==
    LET q == num \div den
        r == num % den
    IN  IF 2 * r < den THEN q
        ELSE IF 2 * r > den THEN q + 1
        ELSE IF q % 2 = 0 THEN q ELSE q + 1

\* Percent cut off after the first decimal instead of rounded to it
PercentTruncated(count, total) == (count * 1000) \div total

\* round((count / total) * 100, 1), in tenths
Percent(count, total) == RoundHalfEven(count * 1000, total)

\* the position of the first sep in text, 0 when there is none
RECURSIVE find(_, _, _)
find(text, sep, i) ==
    IF i > Len(text) THEN 0
    ELSE IF text[i] = sep THEN i
    ELSE find(text, sep, i + 1)

\* text.split(sep) for a one-character sep
RECURSIVE split(_, _)
split(text, sep) ==
    With(find(text, sep, 1), LAMBDA i :
        IF i = 0 THEN <<text>>
        ELSE <<SubSeq(text, 1, i - 1)>> \o split(SubSeq(text, i + 1, Len(text)), sep))

\* the white space int() strips: tab, line feed, vertical tab, form feed,
\* carriage return, space
IsSpace(c) == (c >= 9 /\ c <= 13) \/ c = 32

IsDigit(c) == c >= 48 /\ c <= 57

\* text.strip()
RECURSIVE strip(_)
strip(text) ==
    IF Len(text) = 0 THEN text
    ELSE IF IsSpace(text[1]) THEN strip(Tail(text))
    ELSE IF IsSpace(text[Len(text)]) THEN strip(SubSeq(text, 1, Len(text) - 1))
    ELSE text

\* the value of a run of decimal digits and single underscores between them
RECURSIVE digits_value(_, _)
digits_value(text, acc) ==
    IF Len(text) = 0 THEN acc
    ELSE IF text[1] = 95 THEN digits_value(Tail(text), acc)
    ELSE digits_value(Tail(text), acc * 10 + (text[1] - 48))

\* int(text): optional white space around an optional sign and decimal digits,
\* which single underscores may separate; anything else is a ValueError
int(text) ==
    With(strip(text), LAMBDA t :
    With(IF Len(t) > 0 /\ t[1] \in {43, 45} THEN Tail(t) ELSE t, LAMBDA body :
        IF ~(/\ Len(body) > 0
             /\ \A i \in 1..Len(body) : IsDigit(body[i]) \/ body[i] = 95
             /\ body[1] # 95
             /\ body[Len(body)] # 95
             /\ \A i \in 1..(Len(body) - 1) : ~(body[i] = 95 /\ body[i + 1] = 95))
        THEN [raised |-> TRUE, exc |-> "ValueError"]
        ELSE [raised |-> FALSE,
              value |-> IF t[1] = 45 THEN 0 - digits_value(body, 0)
                        ELSE digits_value(body, 0)]))

\* a cased character: a Latin or Cyrillic letter
IsLetter(c) ==
    \/ (c >= 65 /\ c <= 90) \/ (c >= 97 /\ c <= 122)
    \/ (c >= 1040 /\ c <= 1103) \/ c = 1025 \/ c = 1105

\* str.upper() on one code point
upper_char(c) ==
    IF (c >= 97 /\ c <= 122) \/ (c >= 1072 /\ c <= 1103) THEN c - 32
    ELSE IF c = 1105 THEN 1025
    ELSE c

\* str.title(): a letter that follows no letter in upper case, the others in
\* lower case
title(text) ==
    [i \in 1..Len(text) |->
        IF i = 1 \/ ~IsLetter(text[i - 1]) THEN upper_char(text[i])
        ELSE lower_char(text[i])]

interest_categories == <<
    [name |-> "tehnologii", keywords |-> <<
        Cyr("programmirowanie"), U("it"), Cyr("kod"), U("python"),
        U("java"), U("javascript"), Cyr("razrabotka"), Cyr("kompxUter"),
        Cyr("ajti"), Cyr("gadvety"), Cyr("tehnologii"), Cyr("tehnika"),
        Cyr("smartfon"), Cyr("noutbuk")
    >>],
    [name |-> "obrazowanie", keywords |-> <<
        Cyr("uCeba"), Cyr("obrazowanie"), Cyr("kursy"), Cyr("Skola"),
        Cyr("uniwersitet"), Cyr("wuz"), Cyr("student"), Cyr("obuCenie"),
        Cyr("znaniq"), Cyr("nauka"), Cyr("issledowanie"), Cyr("laboratoriq")
    >>],
    [name |-> "sport", keywords |-> <<
        Cyr("sport"), Cyr("futbol"), Cyr("hokkej"), Cyr("basketbol"),
        Cyr("trenirowka"), Cyr("fitnes"), Cyr("zal"), Cyr("beg"),
        Cyr("joga"), Cyr("plawanie"), Cyr("krossfit"), Cyr("boks"),
        Cyr("edinoborstwa")
    >>],
    [name |-> "iskusstwo", keywords |-> <<
        Cyr("iskusstwo"), Cyr("viwopisx"), Cyr("muzyka"), Cyr("kino"),
        Cyr("teatr"), Cyr("tancy"), Cyr("fotografiq"), Cyr("dizajn"),
        Cyr("art"), Cyr("tworCestwo"), Cyr("risowanie"), Cyr("penie")
    >>],
    [name |-> "biznes", keywords |-> <<
        Cyr("biznes"), Cyr("startap"), Cyr("predprinimatelxstwo"), Cyr("inwesticii"),
        Cyr("finansy"), Cyr("marketing"), Cyr("prodavi"), Cyr("uprawlenie"),
        Cyr("kompaniq"), Cyr("proekt"), Cyr("denxgi"), Cyr("Ekonomika")
    >>],
    [name |-> "puteSestwiq", keywords |-> <<
        Cyr("puteSestwiq"), Cyr("turizm"), Cyr("otdyh"), Cyr("otpusk"),
        Cyr("strany"), Cyr("goroda"), Cyr("poezdki"), Cyr("awiabilety"),
        Cyr("oteli"), Cyr("kurorty"), Cyr("plqv"), Cyr("gory")
    >>],
    [name |-> "moda", keywords |-> <<
        Cyr("moda"), Cyr("stilx"), Cyr("odevda"), Cyr("obuwx"),
        Cyr("kosmetika"), Cyr("krasota"), Cyr("priCeska"), Cyr("makiqv"),
        Cyr("Soping"), Cyr("brendy"), Cyr("trendy"), Cyr("luki")
    >>],
    [name |-> "awto", keywords |-> <<
        Cyr("awto"), Cyr("maSina"), Cyr("awtomobilx"), Cyr("woditelx"),
        Cyr("doroga"), Cyr("tUning"), Cyr("motocikl"), Cyr("benzin"),
        Cyr("remont"), Cyr("zapCasti")
    >>],
    [name |-> "kulinariq", keywords |-> <<
        Cyr("kulinariq"), Cyr("gotowka"), Cyr("recepty"), Cyr("eda"),
        Cyr("kuhnq"), Cyr("powar"), Cyr("blUda"), Cyr("deserty"),
        Cyr("restorany"), Cyr("napitki"), Cyr("kofe"), Cyr("Caj")
    >>],
    [name |-> "zdorowxe", keywords |-> <<
        Cyr("zdorowxe"), Cyr("medicina"), Cyr("wraC"), Cyr("bolxnica"),
        Cyr("leCenie"), Cyr("dieta"), Cyr("witaminy"), Cyr("trenirowka"),
        Cyr("joga"), Cyr("meditaciq"), Cyr("psihologiq")
    >>],
    [name |-> "gejming", keywords |-> <<
        Cyr("igry"), Cyr("gejming"), Cyr("igrok"), Cyr("konsolx"),
        U("ps"), U("xbox"), U("steam"), Cyr("kibersport"),
        Cyr("strim"), U("twitch"), Cyr("dota"), Cyr("kspop"),
        Cyr("majnkraft")
    >>],
    [name |-> "knigi", keywords |-> <<
        Cyr("knigi"), Cyr("Ctenie"), Cyr("literatura"), Cyr("roman"),
        Cyr("fEntezi"), Cyr("detektiw"), Cyr("poEziq"), Cyr("pisatelx"),
        Cyr("biblioteka"), Cyr("audiokniga")
    >>],
    [name |-> "serialy", keywords |-> <<
        Cyr("serialy"), Cyr("filxmy"), Cyr("kino"), Cyr("netfliks"),
        U("hdrezka"), Cyr("tw"), Cyr("aktery"), Cyr("revisser"),
        Cyr("premxera"), Cyr("obzor")
    >>],
    [name |-> "muzyka", keywords |-> <<
        Cyr("muzyka"), Cyr("plejlist"), Cyr("koncert"), Cyr("alxbom"),
        Cyr("ispolnitelx"), Cyr("gruppa"), Cyr("rok"), Cyr("pop"),
        Cyr("hip-hop"), Cyr("dvaz"), Cyr("klassika")
    >>],
    [name |-> "hobbi", keywords |-> <<
        Cyr("hobbi"), Cyr("rukodelie"), Cyr("kollekcionirowanie"), Cyr("sadowodstwo"),
        Cyr("rybalka"), Cyr("ohota"), Cyr("wySiwka"), Cyr("wqzanie"),
        Cyr("modelirowanie"), Cyr("pazly")
    >>]
>>

russian_cities == <<
    Cyr("moskwa"), Cyr("sankt-peterburg"), Cyr("nowosibirsk"), Cyr("ekaterinburg"),
    Cyr("nivnij nowgorod"), Cyr("kazanx"), Cyr("Celqbinsk"), Cyr("omsk"),
    Cyr("samara"), Cyr("rostow-na-donu"), Cyr("ufa"), Cyr("krasnoqrsk"),
    Cyr("permx"), Cyr("woronev"), Cyr("wolgograd"), Cyr("krasnodar"),
    Cyr("saratow"), Cyr("tUmenx"), Cyr("tolxqtti"), Cyr("ivewsk"),
    Cyr("barnaul"), Cyr("ulxqnowsk"), Cyr("irkutsk"), Cyr("habarowsk"),
    Cyr("qroslawlx"), Cyr("wladiwostok"), Cyr("mahaCkala"), Cyr("tomsk"),
    Cyr("orenburg"), Cyr("kemerowo"), Cyr("nowokuzneck"), Cyr("rqzanx"),
    Cyr("astrahanx"), Cyr("penza"), Cyr("lipeck"), Cyr("kirow"),
    Cyr("Ceboksary"), Cyr("kaliningrad"), Cyr("tula"), Cyr("stawropolx"),
    Cyr("kursk"), Cyr("soCi"), Cyr("twerx"), Cyr("magnitogorsk"),
    Cyr("surgut"), Cyr("wolvskij"), Cyr("salawat")
>>
----------------------------------------------------------------------------
(* Python values of profile fields.                                        *)

PyNone == [ty |-> "none"]
PyInt(n) == [ty |-> "int", i |-> n]
PyStr(t) == [ty |-> "str", s |-> t]
PyDict(f) == [ty |-> "dict", d |-> f]
PyList(l) == [ty |-> "list", l |-> l]

\* bool(v)
Truthy(v) ==
    CASE v.ty = "none" -> FALSE
      [] v.ty = "int" -> v.i # 0
      [] v.ty = "str" -> Len(v.s) > 0
      [] v.ty = "dict" -> DOMAIN v.d # {}
      [] v.ty = "list" -> Len(v.l) > 0

\* member.get(key, default)
get(member, key, default) == IF key \in DOMAIN member THEN member[key] ELSE default

\* a dict with no key
EmptyDict == [k \in {} |-> 0]

\* what a function call yields: a returned value or a raised exception
Return(v) == [raised |-> FALSE, value |-> v]
Raise(e) == [raised |-> TRUE, exc |-> e]

\* key in v, for the str key: a key of a dict, a substring of a str, an
\* element of a list; a TypeError on an int or None
has_key(v, key) ==
    CASE v.ty = "dict" -> Return(key \in DOMAIN v.d)
      [] v.ty = "str" -> Return(Contains(v.s, U(key)))
      [] v.ty = "list" -> Return(\E i \in 1..Len(v.l) : v.l[i] = PyStr(U(key)))
      [] OTHER -> Raise("TypeError")

\* v[key], for the str key: the value of a dict; a TypeError on a str or a list
subscript(v, key) ==
    IF v.ty = "dict" THEN Return(v.d[key]) ELSE Raise("TypeError")

\* the smallest number of a non-empty set of numbers
Min(S) == CHOOSE x \in S : \A y \in S : x <= y

----------------------------------------------------------------------------
(* _analyze_gender                                                         *)

\* gender_counter without the elif: every sex other than 1 counts as male
RECURSIVE gender_counter_no_unknown(_, _, _)
gender_counter_no_unknown(members_, i, counter) ==
    IF i > Len(members_) THEN counter
    ELSE LET gender == get(members_[i], "sex", PyInt(0))
         IN  IF gender.ty = "int" /\ gender.i = 1
             THEN gender_counter_no_unknown(members_, i + 1,
                                            [counter EXCEPT !.female = @ + 1])
             ELSE gender_counter_no_unknown(members_, i + 1,
                                            [counter EXCEPT !.male = @ + 1])

\* the for loop of _analyze_gender from member i on
RECURSIVE gender_counter(_, _, _)
gender_counter(members_, i, counter) ==
    IF i > Len(members_) THEN counter
    ELSE LET gender == get(members_[i], "sex", PyInt(0))
         IN  IF gender.ty = "int" /\ gender.i = 1
             THEN gender_counter(members_, i + 1, [counter EXCEPT !.female = @ + 1])
             ELSE IF gender.ty = "int" /\ gender.i = 2
             THEN gender_counter(members_, i + 1, [counter EXCEPT !.male = @ + 1])
             ELSE gender_counter(members_, i + 1, [counter EXCEPT !.unknown = @ + 1])

_analyze_gender(members_) ==
    With(gender_counter(members_, 1, [male |-> 0, female |-> 0, unknown |-> 0]),
         LAMBDA counter :
        IF Len(members_) = 0
        THEN Return([male |-> 0, female |-> 0, unknown |-> 0])
        ELSE Return([male |-> Percent(counter.male, Len(members_)),
                     female |-> Percent(counter.female, Len(members_)),
                     unknown |-> Percent(counter.unknown, Len(members_))]))

----------------------------------------------------------------------------
(* _calculate_age and _analyze_age                                         *)

\* self.age_groups, in the order of the dict
age_groups == <<
    [name |-> "do 18", min_age |-> 0, max_age |-> 18],
    [name |-> "18-24", min_age |-> 18, max_age |-> 25],
    [name |-> "25-34", min_age |-> 25, max_age |-> 35],
    [name |-> "35-44", min_age |-> 35, max_age |-> 45],
    [name |-> "45-54", min_age |-> 45, max_age |-> 55],
    [name |-> "55+", min_age |-> 55, max_age |-> 200]
>>

\* self.age_groups.keys()
AgeGroupNames == {age_groups[j].name : j \in 1..Len(age_groups)}

\* (a1, a2) < (b1, b2) on tuples
TupleLess(a1, a2, b1, b2) == a1 < b1 \/ (a1 = b1 /\ a2 < b2)

\* _calculate_age without the term ((today.month, today.day) < (month, day)):
\* the difference of the years whether or not the birthday has passed
_calculate_age_years_only(bdate, today) ==
    IF ~Truthy(bdate) THEN Return(PyNone)
    ELSE IF bdate.ty # "str" THEN Raise("AttributeError")
    ELSE With(split(bdate.s, 46), LAMBDA parts :
         IF Len(parts) < 2 THEN Return(PyNone)
         ELSE With(int(parts[1]), LAMBDA day :
              With(int(parts[2]), LAMBDA month :
              IF day.raised \/ month.raised THEN Return(PyNone)
              ELSE IF Len(parts) <= 2 THEN Return(PyNone)
              ELSE With(int(parts[3]), LAMBDA year :
                   IF year.raised THEN Return(PyNone)
                   ELSE IF year.value = 0 THEN Return(PyNone)
                   ELSE With(today[1] - year.value, LAMBDA age :
                        Return(PyInt(IF age > 0 THEN age ELSE 0)))))))

\* _calculate_age without the except clause: the ValueError of int() on a
\* component that is no number leaves the function
_calculate_age_no_except(bdate, today) ==
    IF ~Truthy(bdate) THEN Return(PyNone)
    ELSE IF bdate.ty # "str" THEN Raise("AttributeError")
    ELSE With(split(bdate.s, 46), LAMBDA parts :
         IF Len(parts) < 2 THEN Return(PyNone)
         ELSE With(int(parts[1]), LAMBDA day :
              With(int(parts[2]), LAMBDA month :
              IF day.raised \/ month.raised THEN Raise("ValueError")
              ELSE IF Len(parts) <= 2 THEN Return(PyNone)
              ELSE With(int(parts[3]), LAMBDA year :
                   IF year.raised THEN Raise("ValueError")
                   ELSE IF year.value = 0 THEN Return(PyNone)
                   ELSE With(today[1] - year.value
                             - (IF TupleLess(today[2], today[3], month.value, day.value)
                                THEN 1 ELSE 0), LAMBDA age :
                        Return(PyInt(IF age > 0 THEN age ELSE 0)))))))

\* _calculate_age(bdate) with date.today() = today: PyInt(age), PyNone, or
\* the AttributeError of bdate.split on a value that is no str
_calculate_age(bdate, today) ==
    IF ~Truthy(bdate) THEN Return(PyNone)
    ELSE IF bdate.ty # "str" THEN Raise("AttributeError")
    ELSE With(split(bdate.s, 46), LAMBDA parts :
         IF Len(parts) < 2 THEN Return(PyNone)
         ELSE With(int(parts[1]), LAMBDA day :
              With(int(parts[2]), LAMBDA month :
              IF day.raised \/ month.raised THEN Return(PyNone)
              ELSE IF Len(parts) <= 2 THEN Return(PyNone)
              ELSE With(int(parts[3]), LAMBDA year :
                   IF year.raised THEN Return(PyNone)
                   ELSE IF year.value = 0 THEN Return(PyNone)
                   ELSE With(today[1] - year.value
                             - (IF TupleLess(today[2], today[3], month.value, day.value)
                                THEN 1 ELSE 0), LAMBDA age :
                        Return(PyInt(IF age > 0 THEN age ELSE 0)))))))

\* the first age group whose interval holds age, "" when none does
RECURSIVE age_group_of(_, _)
age_group_of(age, j) ==
    IF j > Len(age_groups) THEN ""
    ELSE IF age_groups[j].min_age <= age /\ age < age_groups[j].max_age
    THEN age_groups[j].name
    ELSE age_group_of(age, j + 1)

\* the for loop of _analyze_age from member i on; acc holds age_counter, ages,
\* unknown_ages, and the exception that left the loop, "" when none
RECURSIVE age_loop(_, _, _, _)
age_loop(members_, today, i, acc) ==
    IF i > Len(members_) \/ acc.exc # "" THEN acc
    ELSE With(get(members_[i], "bdate", PyNone), LAMBDA bdate :
         IF ~Truthy(bdate)
         THEN age_loop(members_, today, i + 1, [acc EXCEPT !.unknown_ages = @ + 1])
         ELSE With(_calculate_age(bdate, today), LAMBDA age :
              IF age.raised
              THEN [acc EXCEPT !.exc = age.exc]
              ELSE IF age.value.ty = "none"
              THEN age_loop(members_, today, i + 1, [acc EXCEPT !.unknown_ages = @ + 1])
              ELSE With(age_group_of(age.value.i, 1), LAMBDA group :
                   age_loop(members_, today, i + 1,
                       [acc EXCEPT
                           !.ages = Append(@, age.value.i),
                           !.age_counter =
                               IF group = "" THEN @
                               ELSE [@ EXCEPT ![group] = @ + 1]]))))

\* sum(ages)
RECURSIVE sum(_)
sum(xs) == IF Len(xs) = 0 THEN 0 ELSE Head(xs) + sum(Tail(xs))

_analyze_age(members_, today) ==
    With(age_loop(members_, today, 1,
             [age_counter |-> [g \in AgeGroupNames |-> 0],
              ages |-> <<>>, unknown_ages |-> 0, exc |-> ""]),
         LAMBDA acc :
        IF acc.exc # "" THEN Raise(acc.exc)
        ELSE IF Len(members_) = 0 THEN Return(EmptyDict)
        ELSE Return(
            [k \in AgeGroupNames \cup {"average_age", "unknown_percentage"} |->
                IF k = "average_age"
                THEN (IF Len(acc.ages) > 0
                      THEN RoundHalfEven(sum(acc.ages) * 10, Len(acc.ages))
                      ELSE 0)
                ELSE IF k = "unknown_percentage"
                THEN Percent(acc.unknown_ages, Len(members_))
                ELSE Percent(acc.age_counter[k], Len(members_))]))

----------------------------------------------------------------------------
(* _categorize_interests and _analyze_interests                            *)

\* self.interest_categories.keys()
CategoryNames ==
    {"tehnologii", "obrazowanie", "sport", "iskusstwo",
     "biznes", "puteSestwiq", "moda", "awto",
     "kulinariq", "zdorowxe", "gejming", "knigi",
     "serialy", "muzyka", "hobbi"}

\* the inner for loop of _categorize_interests over the keywords of one
\* category: what it appends to categories, which is the category, once, at
\* the first keyword found in the text (the break leaves the loop), or nothing
keyword_loop(text_lower, category) ==
    IF \E k \in 1..Len(category.keywords) : Contains(text_lower, category.keywords[k])
    THEN <<category.name>>
    ELSE <<>>

\* the outer for loop of _categorize_interests from category j of
\* self.interest_categories on: categories
RECURSIVE category_loop(_, _, _)
category_loop(items, text_lower, j) ==
    IF j > Len(items) THEN <<>>
    ELSE keyword_loop(text_lower, items[j]) \o category_loop(items, text_lower, j + 1)

\* list(set(xs)): xs without its repetitions.  The order of the list is that
\* of a set's iteration; it is left to most_common (TopSets, ItemOrders).
RECURSIVE list_set(_, _)
list_set(xs, seen) ==
    IF Len(xs) = 0 THEN <<>>
    ELSE IF Head(xs) \in seen THEN list_set(Tail(xs), seen)
    ELSE <<Head(xs)>> \o list_set(Tail(xs), seen \cup {Head(xs)})

\* the inner for loop without the break: the category once for every one of
\* its keywords found in the text
keyword_loop_every_keyword(text_lower, category) ==
    [x \in 1..Cardinality({k \in 1..Len(category.keywords) :
                               Contains(text_lower, category.keywords[k])}) |->
        category.name]

\* the outer for loop over the inner loop without the break
RECURSIVE category_loop_every_keyword(_, _, _)
category_loop_every_keyword(items, text_lower, j) ==
    IF j > Len(items) THEN <<>>
    ELSE keyword_loop_every_keyword(text_lower, items[j])
         \o category_loop_every_keyword(items, text_lower, j + 1)

\* _categorize_interests without the break and without list(set(...)): the
\* category once for every one of its keywords found in the text
_categorize_interests_every_keyword(interests_text) ==
    IF ~Truthy(interests_text) THEN Return(<<>>)
    ELSE IF interests_text.ty # "str" THEN Raise("AttributeError")
    ELSE Return(category_loop_every_keyword(interest_categories,
                                            lower(interests_text.s), 1))

\* _categorize_interests with a text that holds no keyword filed under the
\* last category, "hobbi", in place of under none
_categorize_interests_default_hobby(interests_text) ==
    IF ~Truthy(interests_text) THEN Return(<<>>)
    ELSE IF interests_text.ty # "str" THEN Raise("AttributeError")
    ELSE With(list_set(category_loop(interest_categories,
                                     lower(interests_text.s), 1), {}),
              LAMBDA categories :
             Return(IF Len(categories) = 0 THEN <<"hobbi">> ELSE categories))

\* _categorize_interests(interests_text): the list of categories, or the
\* AttributeError of interests_text.lower() on a value that is no str
_categorize_interests(interests_text) ==
    IF ~Truthy(interests_text) THEN Return(<<>>)
    ELSE IF interests_text.ty # "str" THEN Raise("AttributeError")
    ELSE Return(list_set(category_loop(interest_categories,
                                       lower(interests_text.s), 1), {}))

\* for category in categories: categories_counter[category] += 1, where
\* first[category] keeps the number of the text field that inserted the key
RECURSIVE count_categories(_, _, _)
count_categories(categories, f, acc) ==
    IF Len(categories) = 0 THEN acc
    ELSE count_categories(Tail(categories), f,
             [acc EXCEPT
                 !.categories_counter[Head(categories)] = @ + 1,
                 !.first[Head(categories)] = IF @ = 0 THEN f ELSE @])

\* the for loop of _analyze_interests over the text fields of the batch:
\* field 2i-1 is the interests of member i, field 2i its activities
RECURSIVE interests_loop(_, _, _)
interests_loop(members_, f, acc) ==
    IF f > 2 * Len(members_) \/ acc.exc # "" THEN acc
    ELSE With(get(members_[(f + 1) \div 2],
                  IF f % 2 = 1 THEN "interests" ELSE "activities", PyStr(<<>>)),
              LAMBDA text :
         IF ~Truthy(text) THEN interests_loop(members_, f + 1, acc)
         ELSE With(_categorize_interests(text), LAMBDA categories :
              IF categories.raised THEN [acc EXCEPT !.exc = categories.exc]
              ELSE interests_loop(members_, f + 1,
                                  count_categories(categories.value, f, acc))))

\* categories_counter after the loop, with the field that first hit each key
categories_count(members_) ==
    interests_loop(members_, 1,
        [categories_counter |-> [c \in CategoryNames |-> 0],
         first |-> [c \in CategoryNames |-> 0],
         exc |-> ""])

\* sum(counter.values())
RECURSIVE counter_total(_, _)
counter_total(counter, keys) ==
    IF keys = {} THEN 0
    ELSE With(CHOOSE x \in keys : TRUE, LAMBDA k :
         counter[k] + counter_total(counter, keys \ {k}))

\* a comes before b in most_common: by count, largest first, and among equal
\* counts by insertion into the Counter
Before(acc, a, b) ==
    \/ acc.categories_counter[a] > acc.categories_counter[b]
    \/ /\ acc.categories_counter[a] = acc.categories_counter[b]
       /\ acc.first[a] < acc.first[b]

\* the key sets most_common(n) may return: two keys of equal count that one
\* text inserted stand in the iteration order of a set, which is not fixed
TopSets(acc, n) ==
    With({c \in CategoryNames : acc.categories_counter[c] > 0}, LAMBDA found :
        IF Cardinality(found) <= n THEN {found}
        ELSE {K \in SUBSET found :
                 /\ Cardinality(K) = n
                 /\ \A a \in K, b \in found \ K : ~Before(acc, b, a)})

\* the values _analyze_interests may return, or the exception it raises
_analyze_interests(members_) ==
    With(categories_count(members_), LAMBDA acc :
    With(counter_total(acc.categories_counter, CategoryNames),
         LAMBDA total_with_interests :
    With(Cardinality({i \in 1..Len(members_) :
             \/ Truthy(get(members_[i], "interests", PyNone))
             \/ Truthy(get(members_[i], "activities", PyNone))}),
         LAMBDA filled_profiles :
        IF acc.exc # "" THEN {Raise(acc.exc)}
        ELSE {Return(
                 [popular_categories |->
                      [c \in K |-> Percent(acc.categories_counter[c], total_with_interests)],
                  profile_fill_rate |->
                      IF Len(members_) > 0 THEN Percent(filled_profiles, Len(members_)) ELSE 0,
                  total_categories_found |->
                      Cardinality({c \in CategoryNames : acc.categories_counter[c] > 0})])
              : K \in TopSets(acc, 10)})))

----------------------------------------------------------------------------
(* _analyze_geography                                                      *)

\* the capitals listed in the first branch of the classification
capitals == <<Cyr("moskwa"), Cyr("sankt-peterburg"), Cyr("minsk"), Cyr("kiew"), Cyr("astana")>>

\* x in xs, for a list xs
InList(x, xs) == \E i \in 1..Len(xs) : xs[i] = x

\* what the loop body does with the city of one member: counts
\* city_info['title'].lower(), counts an unknown location, or raises
city_step(member) ==
    With(get(member, "city", PyNone), LAMBDA city_info :
        IF ~Truthy(city_info) THEN [raised |-> FALSE, known |-> FALSE]
        ELSE With(has_key(city_info, "title"), LAMBDA has :
             IF has.raised THEN has
             ELSE IF ~has.value THEN [raised |-> FALSE, known |-> FALSE]
             ELSE With(subscript(city_info, "title"), LAMBDA title_ :
                  IF title_.raised THEN title_
                  ELSE IF title_.value.ty # "str" THEN Raise("AttributeError")
                  ELSE [raised |-> FALSE, known |-> TRUE, city_name |-> lower(title_.value.s)])))

\* what the loop body does with the country of one member: counts
\* country_info['title'], whatever hashable value it is, or nothing, or raises
country_step(member) ==
    With(get(member, "country", PyNone), LAMBDA country_info :
        IF ~Truthy(country_info) THEN [raised |-> FALSE, known |-> FALSE]
        ELSE With(has_key(country_info, "title"), LAMBDA has :
             IF has.raised THEN has
             ELSE IF ~has.value THEN [raised |-> FALSE, known |-> FALSE]
             ELSE With(subscript(country_info, "title"), LAMBDA title_ :
                  IF title_.raised THEN title_
                  ELSE IF title_.value.ty \in {"dict", "list"} THEN Raise("TypeError")
                  ELSE [raised |-> FALSE, known |-> TRUE, country_name |-> title_.value])))

\* city_type with the thresholds on the count tried before the two lists
city_type_count_first(city, count) ==
    With(lower(city), LAMBDA city_lower :
        IF count >= 100 THEN "krupnye_goroda"
        ELSE IF count >= 30 THEN "srednie_goroda"
        ELSE IF InList(city_lower, capitals) THEN "stolicy"
        ELSE IF InList(city_lower, SubSeq(russian_cities, 1, 15)) THEN "millionniki"
        ELSE "malye_goroda")

\* the classification of one key of cities_counter
city_type(city, count) ==
    With(lower(city), LAMBDA city_lower :
        IF InList(city_lower, capitals) THEN "stolicy"
        ELSE IF InList(city_lower, SubSeq(russian_cities, 1, 15)) THEN "millionniki"
        ELSE IF count >= 100 THEN "krupnye_goroda"
        ELSE IF count >= 30 THEN "srednie_goroda"
        ELSE "malye_goroda")

CityTypes == {"stolicy", "millionniki", "krupnye_goroda", "srednie_goroda", "malye_goroda"}

\* the keys of counter.most_common(n), for a Counter whose key k was inserted
\* by member first[k]: the n keys of largest count, the earlier inserted of two
\* equal counts first
most_common_keys(counter, first, n) ==
    {k \in DOMAIN counter :
        Cardinality({j \in DOMAIN counter :
            \/ counter[j] > counter[k]
            \/ (counter[j] = counter[k] /\ first[j] < first[k])}) < n}

\* the Counter of the values steps[i][name] of the members i that have one,
\* with the member that inserted each key
counter_of(steps, name) ==
    With({i \in DOMAIN steps : steps[i].known}, LAMBDA known :
    With({steps[i][name] : i \in known}, LAMBDA keys :
        [count |-> [c \in keys |-> Cardinality({i \in known : steps[i][name] = c})],
         first |-> [c \in keys |-> Min({i \in known : steps[i][name] = c})]]))

\* geography_result with city_types[tier] += 1 in place of += count: a tier
\* holds the number of its distinct cities
geography_result_distinct_cities(cities, countries, unknown_location, total) ==
    With([t \in CityTypes |->
             Cardinality({c \in DOMAIN cities.count : city_type(c, cities.count[c]) = t})],
         LAMBDA city_types :
        [top_cities |->
             [t \in {title(c) : c \in most_common_keys(cities.count, cities.first, 10)} |->
                 Percent(cities.count[lower(t)], total)],
         countries |->
             [c \in most_common_keys(countries.count, countries.first, 5) |->
                 Percent(countries.count[c], total)],
         city_types |->
             IF total > 0 THEN [t \in CityTypes |-> Percent(city_types[t], total)]
             ELSE EmptyDict,
         unknown_location_percentage |->
             IF total > 0 THEN Percent(unknown_location, total) ELSE 0])

\* the dict _analyze_geography returns from the two counters
geography_result(cities, countries, unknown_location, total) ==
    With([t \in CityTypes |->
             counter_total(cities.count,
                 {c \in DOMAIN cities.count : city_type(c, cities.count[c]) = t})],
         LAMBDA city_types :
        [top_cities |->
             [t \in {title(c) : c \in most_common_keys(cities.count, cities.first, 10)} |->
                 Percent(cities.count[lower(t)], total)],
         countries |->
             [c \in most_common_keys(countries.count, countries.first, 5) |->
                 Percent(countries.count[c], total)],
         city_types |->
             IF total > 0 THEN [t \in CityTypes |-> Percent(city_types[t], total)]
             ELSE EmptyDict,
         unknown_location_percentage |->
             IF total > 0 THEN Percent(unknown_location, total) ELSE 0])

_analyze_geography(members_) ==
    With([i \in 1..Len(members_) |-> city_step(members_[i])], LAMBDA cs :
    With([i \in 1..Len(members_) |-> country_step(members_[i])], LAMBDA ks :
    With({i \in 1..Len(members_) : cs[i].raised \/ ks[i].raised}, LAMBDA failing :
        IF failing # {}
        THEN With(Min(failing), LAMBDA i :
                 IF cs[i].raised THEN Raise(cs[i].exc) ELSE Raise(ks[i].exc))
        ELSE Return(geography_result(
                 counter_of(cs, "city_name"), counter_of(ks, "country_name"),
                 Cardinality({i \in 1..Len(members_) : ~cs[i].known}),
                 Len(members_))))))

----------------------------------------------------------------------------
(* _analyze_social_activity                                                *)

Periods == {"menee_dnq", "1-7_dnej", "1-4_nedeli", "1-3_mesqca", "bolee_3_mesqcew", "nikogda"}

\* seconds in a day: 24 * 3600
DaySeconds == 86400

\* what the loop body does with one member: the period it counts, or the
\* exception it raises
last_seen_step(member, now_timestamp) ==
    With(get(member, "last_seen", PyNone), LAMBDA last_seen :
        IF ~Truthy(last_seen) THEN Return("nikogda")
        ELSE With(has_key(last_seen, "time"), LAMBDA has :
             IF has.raised THEN has
             ELSE IF ~has.value THEN Return("nikogda")
             ELSE With(subscript(last_seen, "time"), LAMBDA time :
                  IF time.raised THEN time
                  ELSE IF time.value.ty # "int" THEN Raise("TypeError")
                  ELSE With(now_timestamp - time.value.i, LAMBDA time_diff :
                       IF time_diff < 1 * DaySeconds THEN Return("menee_dnq")
                       ELSE IF time_diff < 7 * DaySeconds THEN Return("1-7_dnej")
                       ELSE IF time_diff < 30 * DaySeconds THEN Return("1-4_nedeli")
                       ELSE IF time_diff < 90 * DaySeconds THEN Return("1-3_mesqca")
                       ELSE Return("bolee_3_mesqcew")))))

\* activity_result with active_users_percentage added up from the two
\* rounded entries of the distribution
activity_result_sum_of_entries(last_seen_distribution, total) ==
    [last_seen_distribution |->
         IF total > 0
         THEN [p \in Periods |-> Percent(last_seen_distribution[p], total)]
         ELSE EmptyDict,
     active_users_percentage |->
         IF total > 0
         THEN Percent(last_seen_distribution["menee_dnq"], total)
              + Percent(last_seen_distribution["1-7_dnej"], total)
         ELSE 0]

\* the dict _analyze_social_activity returns from the counts of the periods
activity_result(last_seen_distribution, total) ==
    [last_seen_distribution |->
         IF total > 0
         THEN [p \in Periods |-> Percent(last_seen_distribution[p], total)]
         ELSE EmptyDict,
     active_users_percentage |->
         IF total > 0
         THEN Percent(last_seen_distribution["menee_dnq"]
                      + last_seen_distribution["1-7_dnej"], total)
         ELSE 0]

_analyze_social_activity(members_, now_timestamp) ==
    With([i \in 1..Len(members_) |-> last_seen_step(members_[i], now_timestamp)],
         LAMBDA steps :
    With({i \in 1..Len(members_) : steps[i].raised}, LAMBDA failing :
        IF failing # {} THEN Raise(steps[Min(failing)].exc)
        ELSE Return(activity_result(
                 [p \in Periods |->
                     Cardinality({i \in 1..Len(members_) : steps[i].value = p})],
                 Len(members_)))))

----------------------------------------------------------------------------
(* _analyze_profile_completeness                                           *)

\* fields_to_check
fields_to_check == <<
    [field |-> "sex", weight |-> 10],
    [field |-> "bdate", weight |-> 15],
    [field |-> "city", weight |-> 15],
    [field |-> "country", weight |-> 10],
    [field |-> "interests", weight |-> 15],
    [field |-> "activities", weight |-> 15],
    [field |-> "last_seen", weight |-> 20]
>>

\* the inner for loop from field j on: score and total_fields
RECURSIVE fields_loop(_, _, _)
fields_loop(member, j, acc) ==
    IF j > Len(fields_to_check) THEN acc
    ELSE fields_loop(member, j + 1,
             [score |-> acc.score
                        + (IF Truthy(get(member, fields_to_check[j].field, PyNone))
                           THEN fields_to_check[j].weight ELSE 0),
              total_fields |-> acc.total_fields + fields_to_check[j].weight])

\* the values _analyze_profile_completeness may return.  A completeness score
\* is the float (score / total_fields) * 100, which for 55 of 100 is not 55
\* but the next float above it; where the mean of the scores lies on a tie
\* between two tenths and such a score is among them, round() may go either
\* way, and both results are listed.
_analyze_profile_completeness(members_) ==
    With([i \in 1..Len(members_) |->
             fields_loop(members_[i], 1, [score |-> 0, total_fields |-> 0])],
         LAMBDA acc :
    With({i \in 1..Len(members_) : acc[i].total_fields > 0}, LAMBDA scored :
    \* the scores in hundredths of a percent point
    With([i \in scored |-> (acc[i].score * 10000) \div acc[i].total_fields],
         LAMBDA scores :
    With(Cardinality(scored), LAMBDA n :
    With(counter_total(scores, scored), LAMBDA total :
        IF n = 0
        THEN {Return([average_completeness |-> 0,
                      high_completeness_percentage |-> 0,
                      low_completeness_percentage |-> 0])}
        ELSE {Return([average_completeness |-> a,
                      high_completeness_percentage |->
                          Percent(Cardinality({i \in scored : scores[i] > 7000}), n),
                      low_completeness_percentage |->
                          Percent(Cardinality({i \in scored : scores[i] < 3000}), n)])
              : a \in IF /\ (2 * (total % (10 * n))) = 10 * n
                         /\ \E i \in scored :
                                acc[i].score * 100 = 55 * acc[i].total_fields
                      THEN {total \div (10 * n), total \div (10 * n) + 1}
                      ELSE {RoundHalfEven(total, 10 * n)}})))))

----------------------------------------------------------------------------
(* _generate_recommendations and _calculate_audience_quality_score         *)

\* one recommendation: the rule that appended it and what its sentence names
Rec(rule, what) == [rule |-> rule, what |-> what]

\* the three general recommendations appended last
general_tips == <<Rec("tip", "lookalike"), Rec("tip", "formats"), Rec("tip", "peak_hours")>>

\* the orders in which list(popular_categories.items())[:3] may list the
\* categories of popular_categories: that of most_common, where two keys of
\* equal count that one text inserted stand in the iteration order of a set
ItemOrders(members_, popular_categories) ==
    With(categories_count(members_), LAMBDA acc :
    With(DOMAIN popular_categories, LAMBDA K :
    With(IF Cardinality(K) < 3 THEN Cardinality(K) ELSE 3, LAMBDA m :
        {s \in [1..m -> K] :
            /\ \A i, j \in 1..m : i < j => (s[i] # s[j] /\ ~Before(acc, s[j], s[i]))
            /\ \A c \in K \ {s[i] : i \in 1..m} : m = 0 \/ ~Before(acc, c, s[m])})))

\* the recommendations of the interests rule: for category, percentage in
\* items: if percentage > 20
RECURSIVE topic_loop(_, _)
topic_loop(popular_categories, items) ==
    IF Len(items) = 0 THEN <<>>
    ELSE (IF popular_categories[Head(items)] > 200
          THEN <<Rec("topic", Head(items))>> ELSE <<>>)
         \o topic_loop(popular_categories, Tail(items))

\* _generate_recommendations without the cut [:10]
_generate_recommendations_uncapped(analysis_, items) ==
    LET gender == get(analysis_, "gender", EmptyDict)
        age_groups_ == get(analysis_, "age_groups", EmptyDict)
        geography == get(analysis_, "geography", EmptyDict)
        city_types == get(geography, "city_types", EmptyDict)
        social == get(analysis_, "social_activity", EmptyDict)
        interests == get(analysis_, "interests", EmptyDict)
        popular_categories == get(interests, "popular_categories", EmptyDict)
        completeness == get(analysis_, "profile_completeness", EmptyDict)
    IN  With(
            (IF get(gender, "male", 0) > 700 THEN <<Rec("gender", "male")>>
             ELSE IF get(gender, "female", 0) > 700 THEN <<Rec("gender", "female")>>
             ELSE <<>>)
         \o (IF get(age_groups_, "18-24", 0) > 400 THEN <<Rec("age", "18-24")>>
             ELSE IF get(age_groups_, "35-44", 0) > 400 THEN <<Rec("age", "35-44")>>
             ELSE <<>>)
         \o (IF get(city_types, "stolicy", 0) > 500 THEN <<Rec("city", "stolicy")>>
             ELSE IF get(city_types, "malye_goroda", 0) > 500
             THEN <<Rec("city", "malye_goroda")>>
             ELSE <<>>)
         \o (IF get(social, "active_users_percentage", 0) > 700
             THEN <<Rec("activity", "high")>>
             ELSE <<Rec("activity", "low")>>)
         \o topic_loop(popular_categories, items)
         \o (IF get(completeness, "high_completeness_percentage", 0) > 600
             THEN <<Rec("completeness", "high")>>
             ELSE <<>>)
         \o general_tips,
        LAMBDA recommendations :
            recommendations)

\* _generate_recommendations with the three general tips appended first
_generate_recommendations_tips_first(analysis_, items) ==
    LET gender == get(analysis_, "gender", EmptyDict)
        age_groups_ == get(analysis_, "age_groups", EmptyDict)
        geography == get(analysis_, "geography", EmptyDict)
        city_types == get(geography, "city_types", EmptyDict)
        social == get(analysis_, "social_activity", EmptyDict)
        interests == get(analysis_, "interests", EmptyDict)
        popular_categories == get(interests, "popular_categories", EmptyDict)
        completeness == get(analysis_, "profile_completeness", EmptyDict)
    IN  With(
            general_tips
         \o (IF get(gender, "male", 0) > 700 THEN <<Rec("gender", "male")>>
             ELSE IF get(gender, "female", 0) > 700 THEN <<Rec("gender", "female")>>
             ELSE <<>>)
         \o (IF get(age_groups_, "18-24", 0) > 400 THEN <<Rec("age", "18-24")>>
             ELSE IF get(age_groups_, "35-44", 0) > 400 THEN <<Rec("age", "35-44")>>
             ELSE <<>>)
         \o (IF get(city_types, "stolicy", 0) > 500 THEN <<Rec("city", "stolicy")>>
             ELSE IF get(city_types, "malye_goroda", 0) > 500
             THEN <<Rec("city", "malye_goroda")>>
             ELSE <<>>)
         \o (IF get(social, "active_users_percentage", 0) > 700
             THEN <<Rec("activity", "high")>>
             ELSE <<Rec("activity", "low")>>)
         \o topic_loop(popular_categories, items)
         \o (IF get(completeness, "high_completeness_percentage", 0) > 600
             THEN <<Rec("completeness", "high")>>
             ELSE <<>>),
        LAMBDA recommendations :
            SubSeq(recommendations, 1,
                   IF Len(recommendations) < 10 THEN Len(recommendations) ELSE 10))

\* _generate_recommendations(analysis), with items the first three keys of
\* popular_categories in the order of the dict
_generate_recommendations(analysis_, items) ==
    LET gender == get(analysis_, "gender", EmptyDict)
        age_groups_ == get(analysis_, "age_groups", EmptyDict)
        geography == get(analysis_, "geography", EmptyDict)
        city_types == get(geography, "city_types", EmptyDict)
        social == get(analysis_, "social_activity", EmptyDict)
        interests == get(analysis_, "interests", EmptyDict)
        popular_categories == get(interests, "popular_categories", EmptyDict)
        completeness == get(analysis_, "profile_completeness", EmptyDict)
    IN  With(
            (IF get(gender, "male", 0) > 700 THEN <<Rec("gender", "male")>>
             ELSE IF get(gender, "female", 0) > 700 THEN <<Rec("gender", "female")>>
             ELSE <<>>)
         \o (IF get(age_groups_, "18-24", 0) > 400 THEN <<Rec("age", "18-24")>>
             ELSE IF get(age_groups_, "35-44", 0) > 400 THEN <<Rec("age", "35-44")>>
             ELSE <<>>)
         \o (IF get(city_types, "stolicy", 0) > 500 THEN <<Rec("city", "stolicy")>>
             ELSE IF get(city_types, "malye_goroda", 0) > 500
             THEN <<Rec("city", "malye_goroda")>>
             ELSE <<>>)
         \o (IF get(social, "active_users_percentage", 0) > 700
             THEN <<Rec("activity", "high")>>
             ELSE <<Rec("activity", "low")>>)
         \o topic_loop(popular_categories, items)
         \o (IF get(completeness, "high_completeness_percentage", 0) > 600
             THEN <<Rec("completeness", "high")>>
             ELSE <<>>)
         \o general_tips,
        LAMBDA recommendations :
            SubSeq(recommendations, 1,
                   IF Len(recommendations) < 10 THEN Len(recommendations) ELSE 10))

\* |x|
abs(x) == IF x < 0 THEN 0 - x ELSE x

\* _calculate_audience_quality_score without min(100, max(0, score))
_calculate_audience_quality_score_unclamped(analysis_) ==
    LET completeness == get(analysis_, "profile_completeness", EmptyDict)
        social == get(analysis_, "social_activity", EmptyDict)
        interests == get(analysis_, "interests", EmptyDict)
        gender == get(analysis_, "gender", EmptyDict)
        gender_diff == abs(get(gender, "male", 0) - get(gender, "female", 0))
        score ==
            5000
            + 2 * get(completeness, "average_completeness", 0)
            + 2 * get(social, "active_users_percentage", 0)
            + (IF get(interests, "total_categories_found", 0) > 5 THEN 1000 ELSE 0)
            + (IF gender_diff < 200 THEN 1000 ELSE 0)
    IN  RoundHalfEven(score, 10)

\* _calculate_audience_quality_score with a base of 40 points in place of 50
_calculate_audience_quality_score_base_40(analysis_) ==
    LET completeness == get(analysis_, "profile_completeness", EmptyDict)
        social == get(analysis_, "social_activity", EmptyDict)
        interests == get(analysis_, "interests", EmptyDict)
        gender == get(analysis_, "gender", EmptyDict)
        gender_diff == abs(get(gender, "male", 0) - get(gender, "female", 0))
        score ==
            4000
            + 2 * get(completeness, "average_completeness", 0)
            + 2 * get(social, "active_users_percentage", 0)
            + (IF get(interests, "total_categories_found", 0) > 5 THEN 1000 ELSE 0)
            + (IF gender_diff < 200 THEN 1000 ELSE 0)
        clamped == IF score > 10000 THEN 10000 ELSE IF score < 0 THEN 0 ELSE score
    IN  RoundHalfEven(clamped, 10)

\* _calculate_audience_quality_score(analysis), in tenths.  The sum is held
\* in hundredths: a percentage p tenths adds (p / 10 / 100) * 20 points, which
\* is 2 * p hundredths.
_calculate_audience_quality_score(analysis_) ==
    LET completeness == get(analysis_, "profile_completeness", EmptyDict)
        social == get(analysis_, "social_activity", EmptyDict)
        interests == get(analysis_, "interests", EmptyDict)
        gender == get(analysis_, "gender", EmptyDict)
        gender_diff == abs(get(gender, "male", 0) - get(gender, "female", 0))
        score ==
            5000
            + 2 * get(completeness, "average_completeness", 0)
            + 2 * get(social, "active_users_percentage", 0)
            + (IF get(interests, "total_categories_found", 0) > 5 THEN 1000 ELSE 0)
            + (IF gender_diff < 200 THEN 1000 ELSE 0)
        clamped == IF score > 10000 THEN 10000 ELSE IF score < 0 THEN 0 ELSE score
    IN  RoundHalfEven(clamped, 10)

\* quality_interpretation with > in place of >=
quality_interpretation_strict(score) ==
    IF score > 800 THEN "excellent"
    ELSE IF score > 600 THEN "good"
    ELSE IF score > 400 THEN "average"
    ELSE "weak"

\* the sentence analyze_audience chooses for a score, named by its tier
quality_interpretation(score) ==
    IF score >= 800 THEN "excellent"
    ELSE IF score >= 600 THEN "good"
    ELSE IF score >= 400 THEN "average"
    ELSE "weak"

----------------------------------------------------------------------------
(* compare_audiences                                                       *)

\* round(num / den, 1) of a float quotient, in tenths when num is in tenths:
\* the nearest tenth, and where the decimal value lies midway between two
\* tenths, the side the float happens to fall on (up: the upper one)
round_float(num, den, up) ==
    LET q == num \div den
        r == num % den
    IN  IF 2 * r < den THEN q
        ELSE IF 2 * r > den THEN q + 1
        ELSE IF up THEN q + 1 ELSE q

\* similarity_sum with the difference of the two values left signed: what the
\* loop would add up without abs()
RECURSIVE similarity_sum_signed(_, _, _)
similarity_sum_signed(dict1, dict2, keys) ==
    IF keys = {} THEN 0
    ELSE With(CHOOSE k \in keys : TRUE, LAMBDA key :
         With(get(dict1, key, 0), LAMBDA val1 :
         With(get(dict2, key, 0), LAMBDA val2 :
             (1000 - (val1 - val2)) + similarity_sum_signed(dict1, dict2, keys \ {key}))))

\* the for loop of calculate_similarity_percentage over keys: similarity_sum
RECURSIVE similarity_sum(_, _, _)
similarity_sum(dict1, dict2, keys) ==
    IF keys = {} THEN 0
    ELSE With(CHOOSE k \in keys : TRUE, LAMBDA key :
         With(get(dict1, key, 0), LAMBDA val1 :
         With(get(dict2, key, 0), LAMBDA val2 :
             (1000 - abs(val1 - val2)) + similarity_sum(dict1, dict2, keys \ {key}))))

\* calculate_similarity_percentage(dict1, dict2), in tenths.  The float sum is
\* taken in the iteration order of total_keys; two dicts holding the same keys
\* inserted in the same order, as the sections of two reports of
\* analyze_audience do, give that order whichever is passed first.
calculate_similarity_percentage(dict1, dict2, up) ==
    IF DOMAIN dict1 = {} \/ DOMAIN dict2 = {} THEN 0
    ELSE With(DOMAIN dict1 \cup DOMAIN dict2, LAMBDA total_keys :
         round_float(similarity_sum(dict1, dict2, total_keys),
                     Cardinality(total_keys), up))

\* the keys of an age_groups dict in the order _analyze_age inserted them
age_keys == <<"do 18", "18-24", "25-34", "35-44", "45-54", "55+",
              "average_age", "unknown_percentage">>

\* max(age.items(), key=lambda x: x[1])[0] if age else None: the first key, in
\* the order of the dict, that holds the greatest value; "" stands for None
main_age(age) ==
    IF DOMAIN age = {} THEN ""
    ELSE With(SelectSeq(age_keys, LAMBDA k : k \in DOMAIN age), LAMBDA keys :
         keys[Min({i \in 1..Len(keys) :
                      \A j \in 1..Len(keys) : age[keys[j]] <= age[keys[i]]})])

\* common_characteristics, from the gender section, the main age group and
\* the quality score of each of the two reports
common_characteristics(gender1, gender2, main_age1, main_age2, score1, score2) ==
    (IF get(gender1, "male", 0) > 500 /\ get(gender2, "male", 0) > 500
     THEN <<Rec("gender", "male")>>
     ELSE IF get(gender1, "female", 0) > 500 /\ get(gender2, "female", 0) > 500
     THEN <<Rec("gender", "female")>>
     ELSE <<>>)
 \o (IF main_age1 # "" /\ main_age2 # "" /\ main_age1 = main_age2
     THEN <<Rec("main_age", main_age1)>>
     ELSE <<>>)
 \o (IF abs(score1 - score2) < 100 THEN <<Rec("quality", "similar")>>
     ELSE IF score1 > score2 + 100 THEN <<Rec("quality", "first")>>
     ELSE IF score2 > score1 + 100 THEN <<Rec("quality", "second")>>
     ELSE <<>>)

\* compare_audiences(analysis1, analysis2); fp_ tells for each of the three
\* rounded quotients where it falls at a tie
compare_audiences(analysis1_, analysis2_, fp_) ==
    With(calculate_similarity_percentage(get(analysis1_, "gender", EmptyDict),
                                         get(analysis2_, "gender", EmptyDict),
                                         fp_.gender),
         LAMBDA gender_similarity :
    With(calculate_similarity_percentage(get(analysis1_, "age_groups", EmptyDict),
                                         get(analysis2_, "age_groups", EmptyDict),
                                         fp_.age),
         LAMBDA age_similarity :
    With(get(analysis1_, "audience_quality_score", 0), LAMBDA score1 :
    With(get(analysis2_, "audience_quality_score", 0), LAMBDA score2 :
        [similarity_score |->
             round_float(gender_similarity + age_similarity, 2, fp_.total),
         gender_similarity |-> gender_similarity,
         age_similarity |-> age_similarity,
         common_characteristics |->
             common_characteristics(
                 get(analysis1_, "gender", EmptyDict),
                 get(analysis2_, "gender", EmptyDict),
                 main_age(get(analysis1_, "age_groups", EmptyDict)),
                 main_age(get(analysis2_, "age_groups", EmptyDict)),
                 score1, score2),
         audience1_quality |-> score1,
         audience2_quality |-> score2,
         quality_difference |-> abs(score1 - score2)]))))

----------------------------------------------------------------------------
(* State.                                                                  *)

VARIABLES
    clock,      \* what date.today() and datetime.now() read during the call
    members,    \* the batch passed to analyze_audience
    pc,         \* analyze_audience: "idle", "running", "returned", "raised"
    pending,    \* the aggregator tasks started and not yet finished
    results,    \* the value each finished aggregator task returned
    analysis,   \* the report analyze_audience returned
    exc,        \* the exception analyze_audience raised, "" when none
    analysis1,  \* the first report passed to compare_audiences
    analysis2,  \* the second report passed to compare_audiences
    fp,         \* where the floats compare_audiences rounds fall at a decimal tie
    comparison, \* what compare_audiences returned, the empty dict before it has
    user_sessions, \* bot.py: user_sessions, the session entry of each user id
    handlers,   \* bot.py: where each /analyze handler coroutine stands
    fetch,      \* vk_api_client.py: the frame of a get_group_members call
    analyses,   \* database.py: the rows of the table analyses
    user_stats, \* database.py: total_analyses of each row of user_stats
    db_clock    \* database.py: datetime.utcnow(), in days

vars == <<clock, members, pc, pending, results, analysis, exc,
          analysis1, analysis2, fp, comparison,
          user_sessions, handlers, fetch, analyses, user_stats, db_clock>>

\* the state of the bot handlers, of the VK client and of the database
service_vars == <<user_sessions, handlers, fetch, analyses, user_stats, db_clock>>

\* the state of a compare_audiences call
compare_vars == <<analysis1, analysis2, fp, comparison>>

\* the state of an analyze_audience call
analyze_vars == <<clock, members, pc, pending, results, analysis, exc>>

\* the aggregator tasks, named by the report section each one fills
Tasks == {"gender", "age_groups", "geography", "interests",
          "social_activity", "profile_completeness"}

\* n copies of profile p
Rep(p, n) == [i \in 1..n |-> p]

\* the sequences of k naturals whose sum is at most n
RECURSIVE Compositions(_, _)
Compositions(k, n) ==
    IF k = 0 THEN {<<>>}
    ELSE UNION {{<<h>> \o t : t \in Compositions(k - 1, n - h)} : h \in 0..n}

\* the batch holding c[j] copies of kinds[j], for j = 1, 2, ...
RECURSIVE BatchOf(_, _)
BatchOf(kinds, c) ==
    IF Len(kinds) = 0 THEN <<>>
    ELSE Rep(Head(kinds), Head(c)) \o BatchOf(Tail(kinds), Tail(c))

\* Call_analyze_audience without the test "if not members": the aggregators
\* start whatever the batch
Call_analyze_audience_unguarded ==
    /\ pc = "idle"
    /\ pc' = "running"
    /\ pending' = Tasks
    /\ UNCHANGED <<clock, members, results, analysis, exc>>
    /\ UNCHANGED compare_vars
    /\ UNCHANGED service_vars

\* analyze_audience is called: an empty batch returns the empty report at
\* once; otherwise the six aggregators start as threads and analyze_audience
\* waits in asyncio.gather
Call_analyze_audience ==
    /\ pc = "idle"
    /\ IF Len(members) = 0
       THEN /\ pc' = "returned"
            /\ analysis' = EmptyDict
            /\ UNCHANGED pending
       ELSE /\ pc' = "running"
            /\ pending' = Tasks
            /\ UNCHANGED analysis
    /\ UNCHANGED <<clock, members, results, exc>>
    /\ UNCHANGED compare_vars
    /\ UNCHANGED service_vars

\* the sections in the order analyze_audience appends the tasks
TaskOrder == <<"gender", "age_groups", "geography", "interests",
               "social_activity", "profile_completeness">>

\* Finish with the values taken in the order the tasks finish (as from
\* asyncio.as_completed) in place of the order they were appended in: the
\* k-th value to arrive is stored under the k-th section
Finish_as_completed(task, outs) ==
    /\ pc = "running"
    /\ task \in pending
    /\ pending' = pending \ {task}
    /\ \E out \in outs :
           IF out.raised
           THEN /\ pc' = "raised"
                /\ exc' = out.exc
                /\ UNCHANGED results
           ELSE /\ results' = results @@
                       (TaskOrder[Cardinality(DOMAIN results) + 1] :> out.value)
                /\ UNCHANGED <<pc, exc>>
    /\ UNCHANGED <<clock, members, analysis>>
    /\ UNCHANGED compare_vars
    /\ UNCHANGED service_vars

\* Finish of an aggregator that takes the profiles out of the batch as it
\* reads them (members.pop()) in place of iterating over it
Finish_draining(task, outs) ==
    /\ pc = "running"
    /\ task \in pending
    /\ pending' = pending \ {task}
    /\ \E out \in outs :
           IF out.raised
           THEN /\ pc' = "raised"
                /\ exc' = out.exc
                /\ UNCHANGED results
           ELSE /\ results' = results @@ (task :> out.value)
                /\ UNCHANGED <<pc, exc>>
    /\ members' = <<>>
    /\ UNCHANGED <<clock, analysis>>
    /\ UNCHANGED compare_vars
    /\ UNCHANGED service_vars

\* an aggregator task finishes with one of the outcomes outs: its value is
\* stored under its section name, or its exception ends the gather and with
\* it analyze_audience (the threads still running end unobserved)
Finish(task, outs) ==
    /\ pc = "running"
    /\ task \in pending
    /\ pending' = pending \ {task}
    /\ \E out \in outs :
           IF out.raised
           THEN /\ pc' = "raised"
                /\ exc' = out.exc
                /\ UNCHANGED results
           ELSE /\ results' = results @@ (task :> out.value)
                /\ UNCHANGED <<pc, exc>>
    /\ UNCHANGED <<clock, members, analysis>>
    /\ UNCHANGED compare_vars
    /\ UNCHANGED service_vars

Run_analyze_gender == Finish("gender", {_analyze_gender(members)})

Run_analyze_age == Finish("age_groups", {_analyze_age(members, clock.today)})

Run_analyze_geography == Finish("geography", {_analyze_geography(members)})

Run_analyze_interests == Finish("interests", _analyze_interests(members))

Run_analyze_social_activity ==
    Finish("social_activity", {_analyze_social_activity(members, clock.now)})

Run_analyze_profile_completeness ==
    Finish("profile_completeness", _analyze_profile_completeness(members))

\* the sections of a report
Sections == Tasks \cup {"total_members_analyzed", "recommendations",
                        "audience_quality_score", "quality_interpretation"}

\* build_report with total_members_analyzed left out of the merged dict
build_report_without_total(results_, members_, items) ==
    With(results_ @@ ("recommendations" :> _generate_recommendations(results_, items)),
         LAMBDA with_recs :
    With(_calculate_audience_quality_score(with_recs), LAMBDA score :
        with_recs
            @@ ("audience_quality_score" :> score)
            @@ ("quality_interpretation" :> quality_interpretation(score))))

\* what analyze_audience makes of the six values: the merged report with the
\* recommendations, the score and its interpretation
build_report(results_, members_, items) ==
    With(results_ @@ ("total_members_analyzed" :> Len(members_)), LAMBDA merged :
    With(merged @@ ("recommendations" :> _generate_recommendations(merged, items)),
         LAMBDA with_recs :
    With(_calculate_audience_quality_score(with_recs), LAMBDA score :
        with_recs
            @@ ("audience_quality_score" :> score)
            @@ ("quality_interpretation" :> quality_interpretation(score)))))

\* asyncio.gather returns the six values: analyze_audience merges them, adds
\* the recommendations, the score and its interpretation, and returns
Gather ==
    /\ pc = "running"
    /\ pending = {}
    /\ \E items \in ItemOrders(members, results["interests"].popular_categories) :
           analysis' = build_report(results, members, items)
    /\ pc' = "returned"
    /\ UNCHANGED <<clock, members, pending, results, exc>>
    /\ UNCHANGED compare_vars
    /\ UNCHANGED service_vars

\* no handler, no get_group_members call, an empty database
NoService ==
    /\ user_sessions = <<>>
    /\ handlers = <<>>
    /\ fetch = [pc |-> "idle"]
    /\ analyses = {}
    /\ user_stats = <<>>
    /\ db_clock = 0

\* no compare_audiences call
NoCompare ==
    /\ analysis1 = EmptyDict
    /\ analysis2 = EmptyDict
    /\ fp = [gender |-> FALSE, age |-> FALSE, total |-> FALSE]
    /\ comparison = EmptyDict

----------------------------------------------------------------------------
(* Spec: analyze_audience on batches of up to MaxBatch profiles drawn from  *)
(* Profiles, with the aggregator threads finishing in any order.           *)

\* the clock of DefaultClock is 2024-01-01 00:00 UTC
DefaultClock == [today |-> <<2024, 1, 1>>, now |-> 1704067200]

\* every field filled: a man of 20 in a capital, seen an hour before the
\* clock, with interests in three categories
RichMale == [
    sex |-> PyInt(2),
    bdate |-> PyStr(U("15.6.2003")),
    city |-> PyDict([id |-> PyInt(1), title |-> PyStr(<<1052>> \o Cyr("oskwa"))]),
    country |-> PyDict([id |-> PyInt(1), title |-> PyStr(<<1056>> \o Cyr("ossiq"))]),
    interests |-> PyStr(U("python, ") \o Cyr("sport, biznes")),
    activities |-> PyStr(Cyr("beg")),
    last_seen |-> PyDict([time |-> PyInt(1704063600), platform |-> PyInt(7)])
]

\* every field filled: a woman of 38 in a million-city, seen an hour before
\* the clock, with interests in seven categories
RichFemale == [
    sex |-> PyInt(1),
    bdate |-> PyStr(U("15.6.1985")),
    city |-> PyDict([id |-> PyInt(60), title |-> PyStr(<<1050>> \o Cyr("azanx"))]),
    country |-> PyDict([id |-> PyInt(1), title |-> PyStr(<<1056>> \o Cyr("ossiq"))]),
    interests |-> PyStr(Cyr("sport, muzyka, kino, knigi, igry, moda")),
    activities |-> PyStr(Cyr("joga")),
    last_seen |-> PyDict([time |-> PyInt(1704063600), platform |-> PyInt(2)])
]

\* a man in a small town, last seen ten days before the clock
SmallTown == [
    sex |-> PyInt(2),
    city |-> PyDict([id |-> PyInt(999), title |-> PyStr(<<1059>> \o Cyr("rUpinsk"))]),
    last_seen |-> PyDict([time |-> PyInt(1703203200)])
]

\* a woman who hides her birth year, last seen two months before the clock
NoYear == [
    sex |-> PyInt(1),
    bdate |-> PyStr(U("15.6")),
    country |-> PyDict([id |-> PyInt(1), title |-> PyStr(<<1056>> \o Cyr("ossiq"))]),
    last_seen |-> PyDict([time |-> PyInt(1698796800)])
]

\* a woman of 30, who tells nothing else
MidAge == [sex |-> PyInt(1), bdate |-> PyStr(U("15.6.1993"))]

\* a birth date with a year of two digits
TwoDigitYear == [bdate |-> PyStr(U("15.6.90"))]

\* fields of unexpected shape that no aggregator trips over: sex as a str,
\* city as a str, last_seen without a time, interests of white space
OddShapes == [
    sex |-> PyStr(U("2")),
    bdate |-> PyStr(U("15.xx.1990")),
    city |-> PyStr(Cyr("moskwa")),
    country |-> PyDict([id |-> PyInt(1)]),
    interests |-> PyStr(U("   ")),
    last_seen |-> PyDict([platform |-> PyInt(7)])
]

\* bdate as an int
BadBdate == [sex |-> PyInt(2), bdate |-> PyInt(19900615)]

\* city with a title that is None
BadCity == [city |-> PyDict([id |-> PyInt(1), title |-> PyNone])]

\* interests as a list of str
BadInterests == [interests |-> PyList(<<PyStr(Cyr("sport"))>>)]

\* last_seen with a time that is a str
BadLastSeen == [last_seen |-> PyDict([time |-> PyStr(U("1704063600"))])]

Profiles == <<EmptyDict, RichMale, RichFemale, SmallTown, NoYear, TwoDigitYear,
              OddShapes, BadBdate, BadCity, BadInterests, BadLastSeen, MidAge>>

Init ==
    /\ clock = DefaultClock
    /\ \E c \in [1..MaxBatch -> 0..Len(Profiles)] :
           /\ \A i \in 1..(MaxBatch - 1) : c[i] = 0 => c[i + 1] = 0
           /\ members = [i \in 1..Cardinality({j \in 1..MaxBatch : c[j] > 0}) |->
                             Profiles[c[i]]]
    /\ pc = "idle"
    /\ pending = {}
    /\ results = EmptyDict
    /\ analysis = EmptyDict
    /\ exc = ""
    /\ NoCompare
    /\ NoService

Next ==
    \/ Call_analyze_audience
    \/ Run_analyze_gender
    \/ Run_analyze_age
    \/ Run_analyze_geography
    \/ Run_analyze_interests
    \/ Run_analyze_social_activity
    \/ Run_analyze_profile_completeness
    \/ Gather

Spec == Init /\ [][Next]_vars

\* C3: the audience_quality_score of every report analyze_audience returns,
\* which every report of a non-empty batch holds, lies between 0 and 100, also
\* for a batch whose profiles hold no field at all.
C3_ScoreInRange ==
    (pc = "returned" /\ Len(members) > 0) =>
        /\ "audience_quality_score" \in DOMAIN analysis
        /\ analysis["audience_quality_score"] \in 0..1000

\* two complete, active profiles, a man and a woman: the 110 points they add
\* up to are returned as 100
C3_Witness ==
    /\ pc = "returned"
    /\ members = <<RichMale, RichFemale>>
    /\ analysis["audience_quality_score"] = 1000

\* C4: on the empty batch analyze_audience starts no aggregator task, raises
\* nothing, and returns the empty report, which holds no section at all.
C4_EmptyBatch ==
    Len(members) = 0 =>
        /\ pending = {}
        /\ results = EmptyDict
        /\ pc \in {"idle", "returned"}
        /\ exc = ""
        /\ DOMAIN analysis = {}

\* analyze_audience has returned for the empty batch
C4_Witness ==
    /\ Len(members) = 0
    /\ pc = "returned"
    /\ analysis = EmptyDict

\* C6: analyze_audience never raises for a non-empty batch, whatever fields
\* of its profiles are missing or hold a value of an unexpected shape.
C6_NeverRaises == Len(members) > 0 => pc # "raised"

\* C7: the report analyze_audience returns for a non-empty batch holds every
\* canonical section, and its total_members_analyzed is the length of the batch.
C7_CanonicalSections ==
    (pc = "returned" /\ Len(members) > 0) =>
        /\ Sections \subseteq DOMAIN analysis
        /\ analysis["total_members_analyzed"] = Len(members)

\* a report of two profiles has been returned
C7_Witness ==
    /\ pc = "returned"
    /\ Len(members) = 2
    /\ Sections \subseteq DOMAIN analysis
    /\ analysis["total_members_analyzed"] = 2


\* the place of a recommendation in the order of the rules
RuleRank(rec) ==
    CASE rec.rule = "gender" -> 1
      [] rec.rule = "age" -> 2
      [] rec.rule = "city" -> 3
      [] rec.rule = "activity" -> 4
      [] rec.rule = "topic" -> 5
      [] rec.rule = "completeness" -> 6
      [] rec.rule = "tip" -> 7

\* the general tips among the recommendations recs, in their order
TipsOf(recs) == SelectSeq(recs, LAMBDA rec : rec.rule = "tip")

\* C13: the recommendations of every report are at most 10, in the order of
\* the rules (gender, age group, city tier, activity, interest categories,
\* completeness, general tips), so that no rule-triggered entry follows a
\* general tip, and the cut to 10 takes entries from the end only: the tips
\* present are the first of the general tips, all of them unless the list is
\* full.
C13_RuleOrderAndCap ==
    (pc = "returned" /\ Len(members) > 0) =>
        With(analysis["recommendations"], LAMBDA recs :
            /\ Len(recs) <= 10
            /\ \A i, j \in 1..Len(recs) : i < j => RuleRank(recs[i]) <= RuleRank(recs[j])
            /\ \A i, j \in 1..Len(recs) :
                   (i < j /\ recs[i].rule = recs[j].rule) => recs[i].rule \in {"topic", "tip"}
            /\ TipsOf(recs) = SubSeq(general_tips, 1, Len(TipsOf(recs)))
            /\ Len(recs) < 10 => TipsOf(recs) = general_tips)

\* a report whose eight rule-triggered entries and three tips were cut to 10
C13_Witness ==
    /\ pc = "returned"
    /\ members = <<RichMale>>
    /\ Len(analysis["recommendations"]) = 10
    /\ analysis["recommendations"][8].rule = "completeness"
    /\ analysis["recommendations"][10] = Rec("tip", "formats")

\* the score the formula gives a report, in hundredths, before it is clamped
\* and rounded: 50 + (average_completeness / 100) * 20
\* + (active_users_percentage / 100) * 20 + 10 for more than 5 categories
\* + 10 for |male - female| < 20; a percentage of p tenths adds 2 * p
ScoreFormula(report) ==
    5000
    + 2 * report["profile_completeness"]["average_completeness"]
    + 2 * report["social_activity"]["active_users_percentage"]
    + (IF report["interests"]["total_categories_found"] > 5 THEN 1000 ELSE 0)
    + (IF report["gender"]["male"] - report["gender"]["female"] \in -199..199
       THEN 1000 ELSE 0)

\* the tier of a score, in tenths
TierOf(score) ==
    CASE score >= 800 -> "excellent"
      [] score >= 600 /\ score < 800 -> "good"
      [] score >= 400 /\ score < 600 -> "average"
      [] OTHER -> "weak"

\* C18: the quality score of a report is 50 + (average_completeness/100)*20
\* + (active_users_percentage/100)*20 + (10 if total_categories_found > 5)
\* + (10 if |male% - female%| < 20), clamped to [0, 100] and rounded to one
\* decimal, and quality_interpretation is the sentence of the tier: excellent
\* from 80, good from 60, average from 40, weak below.
C18_ScoreFormulaAndTiers ==
    (pc = "returned" /\ Len(members) > 0) =>
        With(ScoreFormula(analysis), LAMBDA points :
        With(IF points > 10000 THEN 10000 ELSE IF points < 0 THEN 0 ELSE points,
             LAMBDA clamped :
            /\ 10 * analysis["audience_quality_score"] - clamped \in -5..5
            /\ analysis["quality_interpretation"]
                   = TierOf(analysis["audience_quality_score"])))

\* the report of one profile without fields scores exactly 60.0, which is
\* good, and that of one complete profile exactly 100.0, cut from 110
C18_Witness ==
    /\ pc = "returned"
    /\ \/ /\ members = <<EmptyDict>>
          /\ analysis["audience_quality_score"] = 600
          /\ analysis["quality_interpretation"] = "good"
       \/ /\ members = <<RichMale, RichFemale>>
          /\ ScoreFormula(analysis) = 11000
          /\ analysis["audience_quality_score"] = 1000
          /\ analysis["quality_interpretation"] = "excellent"

\* C19 as stated: every recommendation list holds the three general tips,
\* after all rule-triggered entries, for every combination of triggered rules.
C19_AllTipsAlways ==
    (pc = "returned" /\ Len(members) > 0) =>
        With(analysis["recommendations"], LAMBDA recs :
            /\ Len(recs) >= 3
            /\ SubSeq(recs, Len(recs) - 2, Len(recs)) = general_tips)

\* the rule-triggered entries among the recommendations recs
TriggeredOf(recs) == SelectSeq(recs, LAMBDA rec : rec.rule # "tip")

\* C19: every recommendation list is its rule-triggered entries followed by
\* general tips: all three tips when at most seven entries are triggered, the
\* first two when eight are, the third being cut by the cap of 10.
C19_TipsUnlessCut ==
    (pc = "returned" /\ Len(members) > 0) =>
        With(analysis["recommendations"], LAMBDA recs :
            /\ recs = TriggeredOf(recs) \o TipsOf(recs)
            /\ Len(TriggeredOf(recs)) <= 8
            /\ TipsOf(recs) = IF Len(TriggeredOf(recs)) = 8
                              THEN SubSeq(general_tips, 1, 2)
                              ELSE general_tips)

\* a list of eight triggered entries and two tips, and a list of one
\* triggered entry and three tips, have been returned
C19_Witness ==
    /\ pc = "returned"
    /\ \/ /\ members = <<RichMale>>
          /\ Len(TriggeredOf(analysis["recommendations"])) = 8
          /\ TipsOf(analysis["recommendations"]) = SubSeq(general_tips, 1, 2)
       \/ /\ members = <<EmptyDict>>
          /\ analysis["recommendations"] = <<Rec("activity", "low")>> \o general_tips

\* C20: whenever a named age group holds more than 40% of the batch, the
\* recommendations hold an age-group recommendation for that group.
C20_DominantAgeRecommended ==
    (pc = "returned" /\ Len(members) > 0) =>
        \A group \in AgeGroupNames :
            analysis["age_groups"][group] > 400 =>
                \E i \in 1..Len(analysis["recommendations"]) :
                    analysis["recommendations"][i] = Rec("age", group)

\* the outcomes of the aggregator that fills the section task, on the batch
OutcomesOf(task) ==
    CASE task = "gender" -> {_analyze_gender(members)}
      [] task = "age_groups" -> {_analyze_age(members, clock.today)}
      [] task = "geography" -> {_analyze_geography(members)}
      [] task = "interests" -> _analyze_interests(members)
      [] task = "social_activity" -> {_analyze_social_activity(members, clock.now)}
      [] task = "profile_completeness" -> _analyze_profile_completeness(members)

\* C21: in whatever order the aggregator tasks finish, the recommendations
\* and the score are made only after all six have finished, and every section
\* holds what its own aggregator returned for the batch.
C21_BarrierAndOwnSection ==
    /\ \A task \in DOMAIN results :
           \E out \in OutcomesOf(task) : ~out.raised /\ results[task] = out.value
    /\ analysis # EmptyDict =>
           /\ pc = "returned"
           /\ pending = {}
           /\ DOMAIN results = Tasks
           /\ \A task \in Tasks : analysis[task] = results[task]

\* the report of a man and a woman has been returned after all six tasks
\* finished: the gender section is the half and half that _analyze_gender
\* counts, the age section holds the two ages
C21_Witness ==
    /\ pc = "returned"
    /\ members = <<RichMale, RichFemale>>
    /\ pending = {}
    /\ DOMAIN results = Tasks
    /\ analysis["gender"] = [male |-> 500, female |-> 500, unknown |-> 0]
    /\ analysis["age_groups"]["18-24"] = 500
    /\ "recommendations" \in DOMAIN analysis
    /\ "audience_quality_score" \in DOMAIN analysis

\* C26: the score of the report of every non-empty batch is at least 50, so
\* its quality_interpretation is never the sentence of the weak tier; a batch
\* of profiles without any field scores exactly 60.0.
C26_ScoreAtLeast50 ==
    (pc = "returned" /\ Len(members) > 0) =>
        /\ analysis["audience_quality_score"] >= 500
        /\ analysis["quality_interpretation"] # "weak"
        /\ (\A i \in 1..Len(members) : members[i] = EmptyDict) =>
               analysis["audience_quality_score"] = 600

\* the report of a man in a small town, seen ten days ago: 50 points and 9
\* for the three fields he filled, 59.0, the average tier
C26_Witness ==
    /\ pc = "returned"
    /\ members = <<SmallTown>>
    /\ analysis["audience_quality_score"] = 590
    /\ analysis["quality_interpretation"] = "average"
----------------------------------------------------------------------------
(* SpecGender: _analyze_gender applied to batches of up to MaxGender        *)
(* profiles that differ in the sex field only.  The counting does not      *)
(* depend on the order of the batch, so each batch is listed kind by kind. *)

SexKinds == <<
    EmptyDict,
    [sex |-> PyInt(0)],
    [sex |-> PyInt(1)],
    [sex |-> PyInt(2)],
    [sex |-> PyInt(3)]
>>

InitGender ==
    /\ clock = DefaultClock
    /\ \E c \in Compositions(Len(SexKinds), MaxGender) : members = BatchOf(SexKinds, c)
    /\ pc = "running"
    /\ pending = {"gender"}
    /\ results = EmptyDict
    /\ analysis = EmptyDict
    /\ exc = ""
    /\ NoCompare
    /\ NoService

NextGender == Run_analyze_gender

SpecGender == InitGender /\ [][NextGender]_vars

\* the number of profiles of the batch whose sex field holds the int code
SexCount(code) ==
    Cardinality({i \in 1..Len(members) :
        /\ "sex" \in DOMAIN members[i]
        /\ members[i]["sex"].ty = "int"
        /\ members[i]["sex"].i = code})

\* C1: for every non-empty batch the three reported gender percentages add up
\* to 100 within 0.1 (one tenth), each being count/total*100 rounded to one decimal.
C1_GenderSums100 ==
    ("gender" \in DOMAIN results /\ Len(members) > 0) =>
        LET g == results["gender"]
            three == g.male + g.female + g.unknown
        IN  three - 1000 \in -1..1

\* a batch of three, one male, one female, one without sex: 33.3 each, 99.9 in all
C1_Witness ==
    /\ "gender" \in DOMAIN results
    /\ Len(members) = 3
    /\ results["gender"] = [male |-> 333, female |-> 333, unknown |-> 333]

\* C9: every profile is counted as exactly one of male (sex 2), female (sex 1)
\* or unknown (sex unset or any other code), each share is count/total*100
\* rounded to one decimal, and 7 male with 3 female of 10 give 70.0, 30.0, 0.0.
C9_GenderCounting ==
    ("gender" \in DOMAIN results /\ Len(members) > 0) =>
        LET g == results["gender"]
            n == Len(members)
            male == SexCount(2)
            female == SexCount(1)
            unknown == n - male - female
        IN  /\ g.male = Percent(male, n)
            /\ g.female = Percent(female, n)
            /\ g.unknown = Percent(unknown, n)
            /\ (n = 10 /\ male = 7 /\ female = 3) =>
                   g = [male |-> 700, female |-> 300, unknown |-> 0]

\* the batch of 10 with 7 male and 3 female has been counted
C9_Witness ==
    /\ "gender" \in DOMAIN results
    /\ Len(members) = 10
    /\ SexCount(2) = 7
    /\ SexCount(1) = 3
    /\ results["gender"] = [male |-> 700, female |-> 300, unknown |-> 0]

----------------------------------------------------------------------------
(* SpecAge: _analyze_age applied to batches of up to MaxAge profiles that   *)
(* differ in the bdate field only, read against two current dates.  The    *)
(* counters do not depend on the order of the batch, so each batch is      *)
(* listed kind by kind.                                                    *)

\* 2024-01-01 and 2024-06-15, each at 00:00 UTC
Clocks == {
    [today |-> <<2024, 1, 1>>, now |-> 1704067200],
    [today |-> <<2024, 6, 15>>, now |-> 1718409600]
}

\* birth dates with a day, a month and a year, and the numbers they spell
BirthDates == <<
    [text |-> U("15.6.1990"), d |-> 15, m |-> 6, y |-> 1990],
    [text |-> U("1.1.2010"), d |-> 1, m |-> 1, y |-> 2010],
    [text |-> U("31.12.2005"), d |-> 31, m |-> 12, y |-> 2005],
    [text |-> U("1.1.1985"), d |-> 1, m |-> 1, y |-> 1985],
    [text |-> U("1.1.1975"), d |-> 1, m |-> 1, y |-> 1975],
    [text |-> U("15.6.1960"), d |-> 15, m |-> 6, y |-> 1960],
    [text |-> U("1.7.2030"), d |-> 1, m |-> 7, y |-> 2030],
    [text |-> U("15.6.90"), d |-> 15, m |-> 6, y |-> 90],
    [text |-> U("1.1.1800"), d |-> 1, m |-> 1, y |-> 1800]
>>

BdateKinds ==
    [j \in 1..Len(BirthDates) |-> [bdate |-> PyStr(BirthDates[j].text)]] \o <<
    EmptyDict,
    [bdate |-> PyStr(U("15.6"))],
    [bdate |-> PyStr(U("15.xx.1990"))],
    [bdate |-> PyInt(5)],
    [bdate |-> PyStr(<<>>)],
    [bdate |-> PyStr(U("15.6.abcd"))]
>>

InitAge ==
    /\ clock \in Clocks
    /\ \E c \in Compositions(Len(BdateKinds), MaxAge) : members = BatchOf(BdateKinds, c)
    /\ pc = "running"
    /\ pending = {"age_groups"}
    /\ results = EmptyDict
    /\ analysis = EmptyDict
    /\ exc = ""
    /\ NoCompare
    /\ NoService

NextAge == Run_analyze_age

SpecAge == InitAge /\ [][NextAge]_vars

\* the sum of the six named age-bucket percentages of an age report
BucketsSum(r) ==
    r["do 18"] + r["18-24"] + r["25-34"] + r["35-44"] + r["45-54"] + r["55+"]

\* C2: for every non-empty batch the six named age-bucket percentages add up
\* to 100 - unknown_percentage within 0.1 (one tenth).
C2_AgeBucketsSum ==
    ("age_groups" \in DOMAIN results /\ Len(members) > 0) =>
        LET r == results["age_groups"]
        IN  BucketsSum(r) - (1000 - r["unknown_percentage"]) \in -1..1


\* the index in BirthDates of the birth date of a member, 0 when it has none
BirthDateOf(member) ==
    IF "bdate" \in DOMAIN member /\ member["bdate"].ty = "str"
          /\ \E j \in 1..Len(BirthDates) : BirthDates[j].text = member["bdate"].s
    THEN CHOOSE j \in 1..Len(BirthDates) : BirthDates[j].text = member["bdate"].s
    ELSE 0

\* the age on the date T of one born on day d of month m of year y: T.year - y,
\* less one when (T.month, T.day) precedes (m, d), and not below 0
ExpectedAge(b, T) ==
    LET years == T[1] - b.y
        before == T[2] < b.m \/ (T[2] = b.m /\ T[3] < b.d)
        age == IF before THEN years - 1 ELSE years
    IN  IF age < 0 THEN 0 ELSE age

\* C8: the age computed of a birth date d.m.y on the date T is T.year - y,
\* less one when (T.month, T.day) precedes (m, d), and at least 0: the
\* average_age of a batch is the mean of these ages, and 15.6.1990 read on
\* 2024-01-01 is 33 and falls in the group 25-34.
C8_AgeFromBirthDate ==
    ("age_groups" \in DOMAIN results /\ Len(members) > 0) =>
        LET r == results["age_groups"]
            dated == {i \in 1..Len(members) : BirthDateOf(members[i]) # 0}
            expected == [i \in 1..Len(members) |->
                            IF i \in dated
                            THEN ExpectedAge(BirthDates[BirthDateOf(members[i])], clock.today)
                            ELSE 0]
        IN  /\ dated # {} =>
                   r["average_age"] = RoundHalfEven(sum(expected) * 10, Cardinality(dated))
            /\ \A i \in dated : expected[i] >= 0
            /\ (/\ clock.today = <<2024, 1, 1>>
                /\ \A i \in 1..Len(members) : BirthDateOf(members[i]) = 1) =>
                   (r["average_age"] = 330 /\ r["25-34"] = 1000)

\* 15.6.1990 has been read on 2024-01-01: age 33, in the group 25-34
C8_Witness ==
    /\ "age_groups" \in DOMAIN results
    /\ clock.today = <<2024, 1, 1>>
    /\ members = <<[bdate |-> PyStr(U("15.6.1990"))]>>
    /\ results["age_groups"]["average_age"] = 330
    /\ results["age_groups"]["25-34"] = 1000

\* the age _calculate_age resolves for a member on the date today, -1 when
\* the member has no bdate or the bdate gives no age
ResolvedAge(member, today) ==
    With(get(member, "bdate", PyNone), LAMBDA bdate :
        IF ~Truthy(bdate) \/ bdate.ty # "str" THEN -1
        ELSE With(_calculate_age(bdate, today), LAMBDA age :
             IF age.raised \/ age.value.ty = "none" THEN -1 ELSE age.value.i))

\* the age groups whose half-open interval [min_age, max_age) holds age
GroupsHolding(age) ==
    {j \in 1..Len(age_groups) :
        age_groups[j].min_age <= age /\ age < age_groups[j].max_age}

\* C15: every profile whose age is resolved falls in exactly one named age
\* bucket, the intervals of the age groups being disjoint and covering every
\* age from 0 on: each bucket reports the share of the profiles whose age lies
\* in its interval, and these profiles together are the resolved ones.
C15_ResolvedAgeInOneBucket ==
    ("age_groups" \in DOMAIN results /\ Len(members) > 0) =>
        With([i \in 1..Len(members) |-> ResolvedAge(members[i], clock.today)],
             LAMBDA ages :
            /\ \A j \in 1..Len(age_groups) :
                   results["age_groups"][age_groups[j].name] =
                       Percent(Cardinality({i \in 1..Len(members) :
                                   ages[i] >= 0 /\ j \in GroupsHolding(ages[i])}),
                               Len(members))
            /\ \A i \in 1..Len(members) :
                   ages[i] >= 0 => Cardinality(GroupsHolding(ages[i])) = 1)

\* a component of a birth date that is empty or holds a Latin letter
NonNumeric(part) ==
    part = <<>> \/ \E i \in 1..Len(part) : part[i] \in (65..90) \cup (97..122)

\* the member has no bdate, or a bdate str that is empty, lacks a year, or
\* has a non-numeric component among day, month and year
Undated(member) ==
    \/ "bdate" \notin DOMAIN member
    \/ /\ member["bdate"].ty = "str"
       /\ With(split(member["bdate"].s, 46), LAMBDA parts :
              \/ member["bdate"].s = <<>>
              \/ Len(parts) < 3
              \/ \E k \in 1..3 : NonNumeric(parts[k]))

\* C16: a birth date that is missing, empty, without a year or with a
\* non-numeric component raises nothing and gives no age: a batch of birth
\* dates that are missing or strings always gets its age report, and in it
\* such a profile is counted in unknown_percentage, in no age bucket and not
\* in average_age, which is 0 when no age is resolved.
C16_UndatedIsUnknown ==
    With([i \in 1..Len(members) |-> ResolvedAge(members[i], clock.today)],
         LAMBDA ages :
    With({i \in 1..Len(members) : ages[i] >= 0}, LAMBDA resolved :
        /\ (/\ pending = {}
            /\ \A i \in 1..Len(members) :
                   "bdate" \in DOMAIN members[i] => members[i]["bdate"].ty = "str") =>
               (pc # "raised" /\ "age_groups" \in DOMAIN results)
        /\ ("age_groups" \in DOMAIN results /\ Len(members) > 0) =>
               /\ \A i \in 1..Len(members) : Undated(members[i]) => i \notin resolved
               /\ results["age_groups"]["unknown_percentage"] =
                      Percent(Len(members) - Cardinality(resolved), Len(members))
               /\ \A j \in 1..Len(age_groups) :
                      results["age_groups"][age_groups[j].name] =
                          Percent(Cardinality({i \in resolved : j \in GroupsHolding(ages[i])}),
                                  Len(members))
               /\ results["age_groups"]["average_age"] =
                      IF resolved = {} THEN 0
                      ELSE RoundHalfEven(
                               sum([i \in 1..Len(members) |->
                                       IF i \in resolved THEN ages[i] ELSE 0]) * 10,
                               Cardinality(resolved))))

\* a batch of an empty, a yearless and a non-numeric birth date beside
\* 15.6.1990 has been read on 2024-01-01: three quarters unknown, one quarter
\* aged 25-34, average age 33
C16_Witness ==
    /\ "age_groups" \in DOMAIN results
    /\ clock.today = <<2024, 1, 1>>
    /\ Len(members) = 4
    /\ \E i \in 1..4 : members[i] = [bdate |-> PyStr(<<>>)]
    /\ \E i \in 1..4 : members[i] = [bdate |-> PyStr(U("15.6"))]
    /\ \E i \in 1..4 : members[i] = [bdate |-> PyStr(U("15.6.abcd"))]
    /\ \E i \in 1..4 : members[i] = [bdate |-> PyStr(U("15.6.1990"))]
    /\ results["age_groups"]["unknown_percentage"] = 750
    /\ results["age_groups"]["25-34"] = 250
    /\ results["age_groups"]["average_age"] = 330
----------------------------------------------------------------------------
(* SpecInterests: _analyze_interests applied to batches of up to            *)
(* MaxInterests profiles that differ in the interests and activities       *)
(* fields only, each batch listed kind by kind.                            *)

\* "python, java i futbol, hokkej": two keywords of tehnologii, two of sport
TextTechSport == U("python, java ") \o Cyr("i futbol, hokkej")

\* "futbol, hokkej, sport": three keywords of sport
TextSport3 == Cyr("futbol, hokkej, sport")

\* "Muzyka" with a capital M (code point 1052): a keyword of iskusstwo and muzyka
TextMusic == <<1052>> \o Cyr("uzyka")

\* eleven words, one keyword each of eleven categories
TextEleven == Cyr("kod, uCeba, sport, teatr, biznes, turizm, moda, awto, eda, wraC, igry")

InterestKinds == <<
    EmptyDict,
    [interests |-> PyStr(<<>>)],
    [interests |-> PyStr(U("   "))],
    [interests |-> PyStr(TextTechSport)],
    [interests |-> PyStr(TextSport3)],
    [interests |-> PyStr(TextMusic)],
    [activities |-> PyStr(Cyr("joga"))],
    [interests |-> PyStr(Cyr("sport")), activities |-> PyStr(Cyr("sport i biznes"))],
    [interests |-> PyStr(U("fitness"))],
    [interests |-> PyStr(TextEleven)],
    [interests |-> PyStr(Cyr("Ctenie")), activities |-> PyStr(<<>>)],
    [interests |-> PyNone, activities |-> PyStr(Cyr("kino"))],
    [interests |-> PyInt(5)],
    [activities |-> PyList(<<PyStr(Cyr("sport"))>>)],
    [activities |-> PyStr(<<9, 10, 32>>)]
>>

InitInterests ==
    /\ clock = DefaultClock
    /\ \E c \in Compositions(Len(InterestKinds), MaxInterests) :
           members = BatchOf(InterestKinds, c)
    /\ pc = "running"
    /\ pending = {"interests"}
    /\ results = EmptyDict
    /\ analysis = EmptyDict
    /\ exc = ""
    /\ NoCompare
    /\ NoService

NextInterests == Run_analyze_interests

SpecInterests == InitInterests /\ [][NextInterests]_vars


\* the categories with a keyword in the text of a field: none for a field
\* that is missing, empty or no str
FieldCategories(member, field) ==
    IF field \in DOMAIN member /\ member[field].ty = "str"
    THEN With(lower(member[field].s), LAMBDA text :
         With(interest_categories, LAMBDA items :
             {j \in 1..Len(items) :
                 \E k \in 1..Len(items[j].keywords) : Contains(text, items[j].keywords[k])}))
    ELSE {}

\* the text fields of the batch
Fields == (1..Len(members)) \X {"interests", "activities"}

\* for each category, the number of fields of the batch that hold one of its
\* keywords
ExpectedHits ==
    With([f \in Fields |-> FieldCategories(members[f[1]], f[2])], LAMBDA found :
        [j \in 1..Cardinality(CategoryNames) |->
            Cardinality({f \in Fields : j \in found[f]})])

\* C10: a text field with keywords of k categories adds one hit to each of
\* the k categories, however many keywords of a category it holds: the tally
\* behind popular_categories counts, for each category, the fields that hold
\* one of its keywords.
C10_OneHitPerCategory ==
    "interests" \in DOMAIN results =>
        With(ExpectedHits, LAMBDA hits :
        With({j \in DOMAIN hits : hits[j] > 0}, LAMBDA hit :
        With([j \in DOMAIN hits |-> interest_categories[j].name], LAMBDA name :
            /\ results["interests"].total_categories_found = Cardinality(hit)
            /\ DOMAIN results["interests"].popular_categories
                   \subseteq {name[j] : j \in hit}
            /\ \A j \in hit :
                   name[j] \in DOMAIN results["interests"].popular_categories =>
                       results["interests"].popular_categories[name[j]]
                           = Percent(hits[j], sum(hits)))))

\* a text with two keywords of tehnologii and two of sport has been tallied
\* beside a text with three keywords of sport: sport 2 hits of 3
C10_Witness ==
    /\ "interests" \in DOMAIN results
    /\ members = <<[interests |-> PyStr(TextTechSport)], [interests |-> PyStr(TextSport3)]>>
    /\ results["interests"].popular_categories = [sport |-> 667, tehnologii |-> 333]
    /\ results["interests"].total_categories_found = 2

\* a str that is empty or holds white space only (tab, line feed, space, ...)
IsBlank(value) ==
    value.ty = "str" /\ \A i \in 1..Len(value.s) : IsSpace(value.s[i])

\* the text fields of the batch that are present
TextFields == {f \in Fields : f[2] \in DOMAIN members[f[1]]}

\* C14: categorizing an empty text or a text of white space only returns zero
\* categories: such a field of a profile adds no hit, and a batch whose text
\* fields are all empty or white space reports no category at all.
C14_BlankTextNoCategory ==
    "interests" \in DOMAIN results =>
        /\ \A f \in TextFields :
               IsBlank(members[f[1]][f[2]]) =>
                   _categorize_interests(members[f[1]][f[2]]) = Return(<<>>)
        /\ (\A f \in TextFields : IsBlank(members[f[1]][f[2]])) =>
               /\ results["interests"].total_categories_found = 0
               /\ results["interests"].popular_categories = EmptyDict

\* a batch of an empty interests text and an activities text of a tab, a
\* line feed and a space has been tallied: no category
C14_Witness ==
    /\ "interests" \in DOMAIN results
    /\ members = <<[interests |-> PyStr(<<>>)], [activities |-> PyStr(<<9, 10, 32>>)]>>
    /\ results["interests"].total_categories_found = 0
    /\ results["interests"].popular_categories = EmptyDict
----------------------------------------------------------------------------
(* SpecCompare: compare_audiences on pairs of reports of analyze_audience. *)

\* the reports analyze_audience may return for a batch: the empty dict for
\* the empty batch, none when an aggregator raises
Reports(members_, clock_) ==
    IF Len(members_) = 0 THEN {EmptyDict}
    ELSE With(_analyze_gender(members_), LAMBDA gender :
         With(_analyze_age(members_, clock_.today), LAMBDA age :
         With(_analyze_geography(members_), LAMBDA geography :
         With(_analyze_social_activity(members_, clock_.now), LAMBDA social :
             IF gender.raised \/ age.raised \/ geography.raised \/ social.raised
             THEN {}
             ELSE UNION {UNION {
                 {build_report("gender" :> gender.value
                               @@ "age_groups" :> age.value
                               @@ "geography" :> geography.value
                               @@ "interests" :> interests.value
                               @@ "social_activity" :> social.value
                               @@ "profile_completeness" :> completeness.value,
                               members_, items) :
                     items \in ItemOrders(members_, interests.value.popular_categories)} :
                 completeness \in {c \in _analyze_profile_completeness(members_) : ~c.raised}} :
                 interests \in {i \in _analyze_interests(members_) : ~i.raised}}))))

\* the profiles of the batches whose reports are compared
CompareKinds == <<EmptyDict, RichMale, RichFemale, NoYear, TwoDigitYear>>

\* the reports of the batches of at most MaxCompare profiles of CompareKinds
CompareReports ==
    UNION {Reports(BatchOf(CompareKinds, c), DefaultClock) :
               c \in Compositions(Len(CompareKinds), MaxCompare)}

InitCompare ==
    /\ clock = DefaultClock
    /\ members = <<>>
    /\ pc = "idle"
    /\ pending = {}
    /\ results = EmptyDict
    /\ analysis = EmptyDict
    /\ exc = ""
    /\ \E reports \in {CompareReports} :
           /\ analysis1 \in reports
           /\ analysis2 \in reports
    /\ fp \in [gender : BOOLEAN, age : BOOLEAN, total : BOOLEAN]
    /\ comparison = EmptyDict
    /\ NoService

\* compare_audiences(analysis1, analysis2) is called and returns
Call_compare_audiences ==
    /\ comparison = EmptyDict
    /\ comparison' = compare_audiences(analysis1, analysis2, fp)
    /\ UNCHANGED <<analysis1, analysis2, fp>>
    /\ UNCHANGED analyze_vars
    /\ UNCHANGED service_vars

NextCompare == Call_compare_audiences

SpecCompare == InitCompare /\ [][NextCompare]_vars

\* C5: whichever of two reports is passed first, compare_audiences returns
\* the same gender_similarity and the same age_similarity
C5_SimilaritySymmetric ==
    comparison # EmptyDict =>
        LET swapped == compare_audiences(analysis2, analysis1, fp)
        IN  /\ comparison.gender_similarity = swapped.gender_similarity
            /\ comparison.age_similarity = swapped.age_similarity

\* two different reports are compared and neither similarity is 0 or 100
C5_Witness ==
    /\ comparison # EmptyDict
    /\ analysis1 # analysis2
    /\ comparison.gender_similarity \in 1..999
    /\ comparison.age_similarity \in 1..999
    /\ analysis1["gender"]["male"] > analysis2["gender"]["male"]

\* the sum over keys of 100 - |v1 - v2|, in tenths, a missing key read as 0
RECURSIVE ExpectedSimilaritySum(_, _, _)
ExpectedSimilaritySum(d1, d2, keys) ==
    IF keys = {} THEN 0
    ELSE With(CHOOSE k \in keys : TRUE, LAMBDA k :
         With(IF k \in DOMAIN d1 THEN d1[k] ELSE 0, LAMBDA v1 :
         With(IF k \in DOMAIN d2 THEN d2[k] ELSE 0, LAMBDA v2 :
             (1000 - (IF v1 < v2 THEN v2 - v1 ELSE v1 - v2))
                 + ExpectedSimilaritySum(d1, d2, keys \ {k}))))

\* similarity, in tenths, is the average over the union of the keys of d1 and
\* d2 of 100 - |v1 - v2|, rounded to one decimal: it lies within half a tenth
\* of the average
IsAverageSimilarity(similarity, d1, d2) ==
    With(DOMAIN d1 \cup DOMAIN d2, LAMBDA keys :
        keys # {} =>
            With(similarity * Cardinality(keys) - ExpectedSimilaritySum(d1, d2, keys),
                 LAMBDA gap :
                2 * gap <= Cardinality(keys) /\ 2 * gap >= 0 - Cardinality(keys)))

\* the section of a report, the empty distribution when the report has none
SectionOf(report, name) == IF name \in DOMAIN report THEN report[name] ELSE EmptyDict

\* C12: for every pair of reports, one with an empty or absent gender or age
\* distribution included, each dimension similarity is the average over the
\* union of the keys of the two distributions of 100 - |v1 - v2|, a missing
\* key read as 0, and similarity_score is the mean of the two similarities.
C12_SimilarityIsAverage ==
    comparison # EmptyDict =>
        /\ IsAverageSimilarity(comparison.gender_similarity,
                               SectionOf(analysis1, "gender"), SectionOf(analysis2, "gender"))
        /\ IsAverageSimilarity(comparison.age_similarity,
                               SectionOf(analysis1, "age_groups"),
                               SectionOf(analysis2, "age_groups"))
        /\ 2 * comparison.similarity_score
               - (comparison.gender_similarity + comparison.age_similarity) \in -1..1

\* the entries of the shared characteristics of the comparison under rule
CharacteristicsOf(rule) ==
    SelectSeq(comparison.common_characteristics, LAMBDA c : c.rule = rule)

\* the named age bucket holding the greatest share of an age report, the
\* first of them in the order of the age groups; "" for a report without an
\* age section
DominantBucket(report) ==
    IF "age_groups" \notin DOMAIN report THEN ""
    ELSE With(report["age_groups"], LAMBDA age :
         age_groups[Min({j \in 1..Len(age_groups) :
                            \A k \in 1..Len(age_groups) :
                                age[age_groups[k].name] <= age[age_groups[j].name]})].name)

\* C23: compare_audiences reports the shared characteristic of the main age
\* group exactly when both reports have the same dominant age group, and the
\* group it names is one of the named age buckets.
C23_MainAgeIsSharedBucket ==
    comparison # EmptyDict =>
        With(CharacteristicsOf("main_age"), LAMBDA named :
            /\ Len(named) <= 1
            /\ \A i \in 1..Len(named) : named[i].what \in AgeGroupNames
            /\ Len(named) = 1 <=>
                   /\ DominantBucket(analysis1) # ""
                   /\ DominantBucket(analysis1) = DominantBucket(analysis2))

\* C24: for every pair of quality scores compare_audiences adds exactly one
\* quality characteristic: similar quality when the scores differ by less
\* than 10, and otherwise the audience with the higher score as the better.
C24_OneQualityCharacteristic ==
    comparison # EmptyDict =>
        With(comparison.audience1_quality - comparison.audience2_quality,
             LAMBDA difference :
            CharacteristicsOf("quality") =
                IF difference \in -99..99 THEN <<Rec("quality", "similar")>>
                ELSE IF difference > 0 THEN <<Rec("quality", "first")>>
                ELSE <<Rec("quality", "second")>>)

\* C27: for any two reports of analyze_audience the gender similarity, the
\* age similarity and the similarity score all lie between 0 and 100, the age
\* similarity being the average over every key of age_groups, average_age and
\* unknown_percentage among them.
C27_SimilaritiesInRange ==
    (comparison # EmptyDict /\ analysis1 # EmptyDict /\ analysis2 # EmptyDict) =>
        /\ comparison.gender_similarity \in 0..1000
        /\ comparison.age_similarity \in 0..1000
        /\ comparison.similarity_score \in 0..1000
        /\ DOMAIN analysis1["age_groups"] \cup DOMAIN analysis2["age_groups"]
               = AgeGroupNames \cup {"average_age", "unknown_percentage"}
        /\ IsAverageSimilarity(comparison.age_similarity,
                               analysis1["age_groups"], analysis2["age_groups"])
----------------------------------------------------------------------------
(* SpecGeography: _analyze_geography applied to batches that differ in the  *)
(* city field only, each batch listed city by city, with the numbers of    *)
(* profiles of a city on either side of the thresholds 30 and 100.         *)

\* a profile of the city whose title is title_
CityProfile(title_) == [city |-> PyDict([id |-> PyInt(1), title |-> PyStr(title_)])]

\* "Moskwa", of the capitals and first of self.russian_cities
InCapital == CityProfile(<<1052>> \o Cyr("oskwa"))

\* "Kazanx", sixth of self.russian_cities
InMillionCity == CityProfile(<<1050>> \o Cyr("azanx"))

\* "Tula", 39th of self.russian_cities, which is past the first 15
InListedCity == CityProfile(<<1058>> \o Cyr("ula"))

\* "UrUpinsk", in no list
InOtherCity == CityProfile(<<1059>> \o Cyr("rUpinsk"))

\* the numbers of profiles of one city: none, one, and those next to the
\* thresholds count >= 30 and count >= 100
ThresholdCounts == {0, 1, 29, 30, 99, 100}

InitGeography ==
    /\ clock = DefaultClock
    /\ \E a \in ThresholdCounts, b \in {0, 1, 100}, c \in ThresholdCounts,
          d \in 0..MaxGeo, e \in 0..MaxGeo :
           members = Rep(InCapital, a) \o Rep(InMillionCity, b) \o Rep(InListedCity, c)
                         \o Rep(InOtherCity, d) \o Rep(EmptyDict, e)
    /\ pc = "running"
    /\ pending = {"geography"}
    /\ results = EmptyDict
    /\ analysis = EmptyDict
    /\ exc = ""
    /\ NoCompare
    /\ NoService

NextGeography == Run_analyze_geography

SpecGeography == InitGeography /\ [][NextGeography]_vars

\* the number of profiles of the batch that are the profile p
ProfileCount(p) == Cardinality({i \in 1..Len(members) : members[i] = p})

\* the tier of a city outside the capitals and the first 15 listed cities, of
\* which the batch holds count profiles
TierByCount(count) ==
    IF count >= 100 THEN "krupnye_goroda"
    ELSE IF count >= 30 THEN "srednie_goroda"
    ELSE "malye_goroda"

\* the occurrences a tier is expected to hold: those of the capital in
\* capitals, those of the million-city in million-cities, whatever their
\* number, and those of each other city in the tier of its number
ExpectedTierCount(tier) ==
    (IF tier = "stolicy" THEN ProfileCount(InCapital) ELSE 0)
    + (IF tier = "millionniki" THEN ProfileCount(InMillionCity) ELSE 0)
    + (IF tier = TierByCount(ProfileCount(InListedCity))
       THEN ProfileCount(InListedCity) ELSE 0)
    + (IF tier = TierByCount(ProfileCount(InOtherCity))
       THEN ProfileCount(InOtherCity) ELSE 0)

\* C11: every city is classified by the first matching rule in the order
\* capitals, million-cities, count >= 100 (large), count >= 30 (medium),
\* otherwise small: each tier holds the share of the occurrences of the
\* cities that rule gives it, and a capital is in capitals for every number
\* of occurrences, 1 and 100 included.
C11_FirstMatchingTier ==
    ("geography" \in DOMAIN results /\ Len(members) > 0) =>
        /\ \A tier \in CityTypes :
               results["geography"].city_types[tier]
                   = Percent(ExpectedTierCount(tier), Len(members))
        /\ results["geography"].city_types["stolicy"]
               = Percent(ProfileCount(InCapital), Len(members))

\* a capital seen once beside a listed city seen 100 times, and a capital
\* seen 100 times, have been classified: both capitals are in capitals
C11_Witness ==
    /\ "geography" \in DOMAIN results
    /\ \/ /\ ProfileCount(InCapital) = 1
          /\ ProfileCount(InListedCity) = 100
          /\ Len(members) = 101
          /\ results["geography"].city_types["stolicy"] = 10
          /\ results["geography"].city_types["krupnye_goroda"] = 990
       \/ /\ ProfileCount(InCapital) = 100
          /\ Len(members) = 100
          /\ results["geography"].city_types["stolicy"] = 1000
          /\ results["geography"].city_types["krupnye_goroda"] = 0

\* C17: every profile falls in exactly one city tier or in the tally of
\* unknown locations: the five tier percentages and
\* unknown_location_percentage, six shares of the batch each rounded to one
\* decimal, add up to 100 within 0.3, and unknown_location_percentage is the
\* share of the profiles without a city.
C17_TiersAndUnknownSum100 ==
    ("geography" \in DOMAIN results /\ Len(members) > 0) =>
        /\ results["geography"].unknown_location_percentage
               = Percent(ProfileCount(EmptyDict), Len(members))
        /\ sum([j \in 1..5 |->
                   results["geography"].city_types[
                       <<"stolicy", "millionniki", "krupnye_goroda",
                         "srednie_goroda", "malye_goroda">>[j]]])
               + results["geography"].unknown_location_percentage - 1000 \in -3..3

\* a batch of 1 + 100 + 30 + 1 + 1 profiles has been classified: four tiers
\* and the unknown locations hold a share each
C17_Witness ==
    /\ "geography" \in DOMAIN results
    /\ Len(members) = 133
    /\ ProfileCount(EmptyDict) = 1
    /\ results["geography"].unknown_location_percentage = 8
    /\ \A tier \in CityTypes \ {"krupnye_goroda"} :
           results["geography"].city_types[tier] > 0


----------------------------------------------------------------------------
(* SpecSession: analyze_audience on a batch of Profiles, then               *)
(* compare_audiences of the returned report with the report of a reference *)
(* batch, as cmd_compare chains the two calls.                             *)

\* the reports of the reference batch, one complete profile
ReferenceReports == Reports(<<RichFemale>>, DefaultClock)

\* compare_audiences is called with the report analyze_audience returned and
\* a reference report, and returns
Call_compare_audiences_of_report ==
    /\ pc = "returned"
    /\ Len(members) > 0
    /\ comparison = EmptyDict
    /\ analysis1' = analysis
    /\ analysis2' \in ReferenceReports
    /\ fp' \in [gender : BOOLEAN, age : BOOLEAN, total : BOOLEAN]
    /\ comparison' = compare_audiences(analysis1', analysis2', fp')
    /\ UNCHANGED analyze_vars
    /\ UNCHANGED service_vars

NextSession == Next \/ Call_compare_audiences_of_report

SpecSession == Init /\ [][NextSession]_vars

\* C22: no aggregator, nor the scorer, the recommender or the comparator
\* writes to the batch or to a profile of it: every step of analyze_audience
\* and of compare_audiences leaves the batch as it was passed in.  (The
\* category, age-group and city tables are constants of the analyzer, which
\* no step assigns.)
C22_InputsUnchanged == [][members' = members]_vars

\* analyze_audience has returned the report of a man and a woman and
\* compare_audiences has compared it: the batch still holds the two profiles
C22_Witness ==
    /\ pc = "returned"
    /\ comparison # EmptyDict
    /\ analysis1 = analysis
    /\ members = <<RichMale, RichFemale>>

----------------------------------------------------------------------------
(* SpecActivity: _analyze_social_activity applied to batches of up to       *)
(* MaxActivity profiles that differ in the last_seen field only, read at   *)
(* the clock of DefaultClock.                                              *)

\* a profile last seen at the timestamp time
SeenAt(time) == [last_seen |-> PyDict([time |-> PyInt(time)])]

\* last seen an hour, exactly one day, three days, ten days, two months and
\* a hundred days before the clock; never seen; a last_seen without a time;
\* a time that is a str
LastSeenKinds == <<
    SeenAt(1704063600),
    SeenAt(1703980800),
    SeenAt(1703808000),
    SeenAt(1703203200),
    SeenAt(1698796800),
    SeenAt(1695427200),
    EmptyDict,
    [last_seen |-> PyDict([platform |-> PyInt(7)])],
    BadLastSeen
>>

InitActivity ==
    /\ clock = DefaultClock
    /\ \E c \in Compositions(Len(LastSeenKinds), MaxActivity) :
           members = BatchOf(LastSeenKinds, c)
    /\ pc = "running"
    /\ pending = {"social_activity"}
    /\ results = EmptyDict
    /\ analysis = EmptyDict
    /\ exc = ""
    /\ NoCompare
    /\ NoService

NextActivity == Run_analyze_social_activity

SpecActivity == InitActivity /\ [][NextActivity]_vars

\* the profiles of the batch last seen less than days days before the clock
SeenWithin(days) ==
    {i \in 1..Len(members) :
        /\ "last_seen" \in DOMAIN members[i]
        /\ "time" \in DOMAIN members[i]["last_seen"].d
        /\ members[i]["last_seen"].d["time"].ty = "int"
        /\ clock.now - members[i]["last_seen"].d["time"].i < days * DaySeconds}

\* the sum of the two entries of last_seen_distribution for less than a day
\* and for one to seven days
ActiveEntries(activity) ==
    activity.last_seen_distribution["menee_dnq"]
    + activity.last_seen_distribution["1-7_dnej"]

\* C25 as stated: for every non-empty batch active_users_percentage equals
\* the sum of the two reported entries of last_seen_distribution.
C25_ActiveIsSumOfEntries ==
    ("social_activity" \in DOMAIN results /\ Len(members) > 0) =>
        results["social_activity"].active_users_percentage =
            ActiveEntries(results["social_activity"])

\* C25: for every non-empty batch active_users_percentage is the share of
\* the profiles last seen less than seven days ago, rounded to one decimal
\* once, and so lies within 0.1 of the sum of the two reported entries.
C25_ActiveIsShareOfBoth ==
    ("social_activity" \in DOMAIN results /\ Len(members) > 0) =>
        /\ results["social_activity"].active_users_percentage =
               Percent(Cardinality(SeenWithin(7)), Len(members))
        /\ results["social_activity"].active_users_percentage
               - ActiveEntries(results["social_activity"]) \in -1..1

\* of three profiles one was seen an hour ago, one three days ago, one
\* never: 66.7 are active, and the two entries are 33.3 each
C25_Witness ==
    /\ "social_activity" \in DOMAIN results
    /\ members = <<SeenAt(1704063600), SeenAt(1703808000), EmptyDict>>
    /\ results["social_activity"].active_users_percentage = 667
    /\ ActiveEntries(results["social_activity"]) = 666

----------------------------------------------------------------------------
(* SpecBot: the /analyze commands of one user, bot.py cmd_analyze.  Every   *)
(* command runs as a coroutine of its own; a coroutine runs undisturbed    *)
(* from one await to the next, and the coroutines interleave at the awaits.*)

\* message.from_user.id of the one user
user_id == 1

\* the values of current_step in the order cmd_analyze sets them
current_steps == <<"poluchenie_informacii", "sbor_uchastnikow", "analiz_demografii",
                   "generaciq_otcheta", "otprawka_rezulxtatow">>

\* what a command carries after /analyze: a group link; nothing, with
\* command.args None; nothing, with an empty list of arguments
ArgsKinds == {"link", "none", "empty"}

\* except KeyError / except Exception of cmd_analyze: the session entry of
\* the user is deleted if there is one
except_handler(sessions) ==
    IF user_id \in DOMAIN sessions THEN <<>> ELSE sessions

\* handler h moves to the place pc_
goto(h, pc_) == handlers' = [handlers EXCEPT ![h].pc = pc_]

\* the number of the step a handler awaits, 0 when it awaits none
StepOf(h) ==
    CASE handlers[h].pc = "step1" -> 1
      [] handlers[h].pc = "step2" -> 2
      [] handlers[h].pc = "step3" -> 3
      [] handlers[h].pc = "step4" -> 4
      [] handlers[h].pc = "step5" -> 5
      [] OTHER -> 0

StepName(k) ==
    CASE k = 1 -> "step1" [] k = 2 -> "step2" [] k = 3 -> "step3"
      [] k = 4 -> "step4" [] k = 5 -> "step5"

\* a command arrives and its handler runs to its first await: the arguments
\* are split (command.args.split() raises AttributeError on None, which the
\* except clause takes), a command without a link is answered with the
\* usage text, a command of a user whose session is analyzing is answered
\* with the refusal, and otherwise the session entry is set to analyzing
Receive(h, args) ==
    /\ handlers[h].pc = "new"
    /\ \A g \in 1..(h - 1) : handlers[g].pc # "new"
    /\ UNCHANGED <<fetch, analyses, user_stats, db_clock>>
    /\ UNCHANGED analyze_vars
    /\ UNCHANGED compare_vars
    /\ CASE args = "none" ->
               /\ user_sessions' = except_handler(user_sessions)
               /\ handlers' = [handlers EXCEPT ![h] = [pc |-> "returned", args |-> args]]
         [] args = "empty" ->
               /\ UNCHANGED user_sessions
               /\ handlers' = [handlers EXCEPT ![h] = [pc |-> "answering", args |-> args]]
         [] args = "link" ->
               IF /\ user_id \in DOMAIN user_sessions
                  /\ user_sessions[user_id].status = "analyzing"
               THEN /\ UNCHANGED user_sessions
                    /\ handlers' = [handlers EXCEPT ![h] = [pc |-> "answering", args |-> args]]
               ELSE /\ user_sessions' =
                           (user_id :> [status |-> "analyzing", group_link |-> h,
                                        current_step |-> current_steps[1]])
                    /\ handlers' = [handlers EXCEPT ![h] = [pc |-> "step1", args |-> args]]

\* the answer to a command that starts no analysis has been sent: return
AnswerSent(h) ==
    /\ handlers[h].pc = "answering"
    /\ goto(h, "returned")
    /\ UNCHANGED <<user_sessions, fetch, analyses, user_stats, db_clock>>
    /\ UNCHANGED analyze_vars
    /\ UNCHANGED compare_vars

\* an await of the handler raises (message.answer, edit_text,
\* analyze_audience, ...): the except clause deletes the session entry of
\* the user if there is one
Fail(h) ==
    /\ handlers[h].pc = "answering" \/ StepOf(h) > 0
    /\ user_sessions' = except_handler(user_sessions)
    /\ goto(h, "returned")
    /\ UNCHANGED <<fetch, analyses, user_stats, db_clock>>
    /\ UNCHANGED analyze_vars
    /\ UNCHANGED compare_vars

\* get_group_info returns nothing, a closed group or a group without
\* members, or get_group_members returns no member: del
\* user_sessions[user_id], whose KeyError on a missing entry the except
\* clause takes, and return
Abandon(h) ==
    /\ StepOf(h) \in {1, 2}
    /\ user_sessions' = except_handler(user_sessions)
    /\ goto(h, "returned")
    /\ UNCHANGED <<fetch, analyses, user_stats, db_clock>>
    /\ UNCHANGED analyze_vars
    /\ UNCHANGED compare_vars

\* the step the handler awaits is done: user_sessions[user_id] is updated
\* with the next current_step, after the last step with the status
\* completed; the KeyError of a missing entry ends the handler
Advance(h) ==
    /\ StepOf(h) > 0
    /\ IF user_id \notin DOMAIN user_sessions
       THEN /\ UNCHANGED user_sessions
            /\ goto(h, "returned")
       ELSE IF StepOf(h) = 5
       THEN /\ user_sessions' = [user_sessions EXCEPT ![user_id].status = "completed"]
            /\ goto(h, "returned")
       ELSE /\ user_sessions' = [user_sessions EXCEPT
                                     ![user_id].current_step = current_steps[StepOf(h) + 1]]
            /\ goto(h, StepName(StepOf(h) + 1))
    /\ UNCHANGED <<fetch, analyses, user_stats, db_clock>>
    /\ UNCHANGED analyze_vars
    /\ UNCHANGED compare_vars

InitBot ==
    /\ clock = DefaultClock
    /\ members = <<>>
    /\ pc = "idle"
    /\ pending = {}
    /\ results = EmptyDict
    /\ analysis = EmptyDict
    /\ exc = ""
    /\ NoCompare
    /\ user_sessions = <<>>
    /\ handlers = [h \in 1..MaxCommands |-> [pc |-> "new", args |-> "unset"]]
    /\ fetch = [pc |-> "idle"]
    /\ analyses = {}
    /\ user_stats = <<>>
    /\ db_clock = 0

NextBot ==
    \/ \E h \in 1..MaxCommands, args \in ArgsKinds : Receive(h, args)
    \/ \E h \in 1..MaxCommands : AnswerSent(h)
    \/ \E h \in 1..MaxCommands : Fail(h)
    \/ \E h \in 1..MaxCommands : Abandon(h)
    \/ \E h \in 1..MaxCommands : Advance(h)

SpecBot == InitBot /\ [][NextBot]_vars

\* the handlers that have started an analysis and not finished it
InProgress == {h \in 1..MaxCommands : StepOf(h) > 0}

\* the session entry of the user says analyzing
Analyzing ==
    user_id \in DOMAIN user_sessions /\ user_sessions[user_id].status = "analyzing"

\* C28: in every interleaving of /analyze commands of one user, with or
\* without a group link, at most one analysis of the user is in progress at
\* a time: while a handler analyzes, the session entry stays its own and
\* says analyzing whatever commands arrive, and once the handler has
\* finished the session no longer says analyzing.
C28_OneAnalysisPerUser ==
    /\ Cardinality(InProgress) <= 1
    /\ \A h \in InProgress : Analyzing /\ user_sessions[user_id].group_link = h
    /\ InProgress = {} => ~Analyzing

----------------------------------------------------------------------------
(* SpecFetch: one call of VKAPIClient.get_group_members, vk_api_client.py. *)
(* The list members is held by its length: the call appends to it and      *)
(* measures it, and never reads an item.                                   *)

\* limit = min(limit, 1000)
limit_cap == 1000

\* batch_size
batch_size == 250

\* stop=stop_after_attempt(3)
stop_after_attempt == 3

\* the limits a caller passes
Limits == {0, 1, 250, 251, 600, 1000, 1500}

\* what get_group_info answers: nothing, a closed group, or an open group of
\* members_count members
GroupInfos ==
    {[found |-> FALSE, is_closed |-> 1, members_count |-> 0],
     [found |-> TRUE, is_closed |-> 1, members_count |-> 300]}
    \cup {[found |-> TRUE, is_closed |-> 0, members_count |-> n] :
              n \in {0, 1, 250, 300, 1000, 5000}}

\* the numbers of items a page may hold when count items are asked for: none,
\* one, one less than asked, as many as asked, and, from a server that does
\* not keep to count, one more
PageSizes(count, oversize) ==
    {k \in {0, 1, count - 1, count} \cup (IF oversize THEN {count + 1} ELSE {}) : k >= 0}

\* get_group_members returns the list of length n
return_members(n) ==
    fetch' = [fetch EXCEPT !.pc = "returned", !.result = n]

\* get_group_members is called: a group id that is no number returns [] at
\* once; otherwise the limit is cut to 1000 and get_group_info is awaited
Call_get_group_members ==
    /\ fetch.pc = "called"
    /\ IF ~fetch.isdigit THEN return_members(0)
       ELSE fetch' = [fetch EXCEPT !.pc = "info", !.limit = Min({@, limit_cap})]
    /\ UNCHANGED <<user_sessions, handlers, analyses, user_stats, db_clock>>
    /\ UNCHANGED analyze_vars
    /\ UNCHANGED compare_vars

\* get_group_info has answered: [] for no group, a closed group or a group
\* without members; otherwise real_limit is set and the loop is entered
Got_group_info ==
    /\ fetch.pc = "info"
    /\ IF \/ ~fetch.group_info.found
          \/ fetch.group_info.is_closed # 0
          \/ fetch.group_info.members_count = 0
       THEN return_members(0)
       ELSE fetch' = [fetch EXCEPT
                         !.pc = "while",
                         !.real_limit = Min({fetch.limit, fetch.group_info.members_count}),
                         !.members = 0,
                         !.offset = 0]
    /\ UNCHANGED <<user_sessions, handlers, analyses, user_stats, db_clock>>
    /\ UNCHANGED analyze_vars
    /\ UNCHANGED compare_vars

\* the test of the while loop: another page is asked for, or the members
\* collected are returned
While_test ==
    /\ fetch.pc = "while"
    /\ IF fetch.members < fetch.real_limit
       THEN fetch' = [fetch EXCEPT
                         !.pc = "request",
                         !.current_batch = Min({batch_size, fetch.real_limit - fetch.members}),
                         !.attempt = 1]
       ELSE return_members(fetch.members)
    /\ UNCHANGED <<user_sessions, handlers, analyses, user_stats, db_clock>>
    /\ UNCHANGED analyze_vars
    /\ UNCHANGED compare_vars

\* Page with an empty page sending the loop round again in place of ending it
Page_without_empty_break(k) ==
    /\ fetch.pc = "request"
    /\ k \in PageSizes(fetch.current_batch, fetch.oversize)
    /\ IF k = 0
       THEN fetch' = [fetch EXCEPT !.pc = "while"]
       ELSE IF k < fetch.current_batch \/ fetch.members + k >= fetch.real_limit
       THEN fetch' = [fetch EXCEPT !.pc = "returned", !.result = fetch.members + k,
                                   !.members = @ + k, !.offset = @ + k]
       ELSE fetch' = [fetch EXCEPT !.pc = "while", !.members = @ + k, !.offset = @ + k]
    /\ UNCHANGED <<user_sessions, handlers, analyses, user_stats, db_clock>>
    /\ UNCHANGED analyze_vars
    /\ UNCHANGED compare_vars

\* _make_request returns a page of k items: no item ends the loop; otherwise
\* the items are appended and offset moves on by k, and the loop ends on a
\* short page or when real_limit is reached
Page(k) ==
    /\ fetch.pc = "request"
    /\ k \in PageSizes(fetch.current_batch, fetch.oversize)
    /\ IF k = 0
       THEN return_members(fetch.members)
       ELSE IF k < fetch.current_batch \/ fetch.members + k >= fetch.real_limit
       THEN fetch' = [fetch EXCEPT !.pc = "returned", !.result = fetch.members + k,
                                   !.members = @ + k, !.offset = @ + k]
       ELSE fetch' = [fetch EXCEPT !.pc = "while", !.members = @ + k, !.offset = @ + k]
    /\ UNCHANGED <<user_sessions, handlers, analyses, user_stats, db_clock>>
    /\ UNCHANGED analyze_vars
    /\ UNCHANGED compare_vars

\* _make_request returns None (an HTTP status other than 200, a body that is
\* no JSON, an error of the API): the loop ends with what was collected
No_response ==
    /\ fetch.pc = "request"
    /\ return_members(fetch.members)
    /\ UNCHANGED <<user_sessions, handlers, analyses, user_stats, db_clock>>
    /\ UNCHANGED analyze_vars
    /\ UNCHANGED compare_vars

\* an attempt of _make_request raises ClientError or TimeoutError: the
\* request is tried again, and after the third attempt the exception reaches
\* get_group_members, which returns []
Request_error ==
    /\ fetch.pc = "request"
    /\ IF fetch.attempt < stop_after_attempt
       THEN fetch' = [fetch EXCEPT !.attempt = @ + 1]
       ELSE return_members(0)
    /\ UNCHANGED <<user_sessions, handlers, analyses, user_stats, db_clock>>
    /\ UNCHANGED analyze_vars
    /\ UNCHANGED compare_vars

InitFetch ==
    /\ clock = DefaultClock
    /\ members = <<>>
    /\ pc = "idle"
    /\ pending = {}
    /\ results = EmptyDict
    /\ analysis = EmptyDict
    /\ exc = ""
    /\ NoCompare
    /\ user_sessions = <<>>
    /\ handlers = <<>>
    /\ \E isdigit \in BOOLEAN, limit \in Limits, group_info \in GroupInfos,
          oversize \in BOOLEAN :
           fetch = [pc |-> "called", isdigit |-> isdigit, limit_arg |-> limit,
                    limit |-> limit, group_info |-> group_info, oversize |-> oversize,
                    real_limit |-> 0, members |-> 0, offset |-> 0,
                    current_batch |-> 0, attempt |-> 0, result |-> 0]
    /\ analyses = {}
    /\ user_stats = <<>>
    /\ db_clock = 0

NextFetch ==
    \/ Call_get_group_members
    \/ Got_group_info
    \/ While_test
    \/ \E k \in 0..(batch_size + 1) : Page(k)
    \/ No_response
    \/ Request_error

SpecFetch == InitFetch /\ [][NextFetch]_vars

\* every await of the call comes back: the requests carry timeouts and the
\* waits between attempts are bounded
SpecFetchFair == SpecFetch /\ WF_vars(NextFetch)

\* C29: get_group_members always terminates; when no page holds more items
\* than were asked for, it returns at most min(limit, 1000, members_count)
\* records; and every iteration of its loop either ends the loop or moves
\* offset on by the number of items received.
C29_TerminatesWithinLimit ==
    /\ <>(fetch.pc = "returned")
    /\ []((fetch.pc = "returned" /\ ~fetch.oversize) =>
              /\ fetch.result <= Min({fetch.limit_arg, limit_cap})
              /\ fetch.group_info.found => fetch.result <= fetch.group_info.members_count)
    /\ [][fetch.pc = "request" =>
              \/ fetch'.pc = "returned"
              \/ fetch'.pc = "request" /\ fetch'.attempt = fetch.attempt + 1
                     /\ fetch'.offset = fetch.offset
              \/ /\ fetch'.pc = "while"
                 /\ fetch'.members > fetch.members
                 /\ fetch'.offset = fetch.offset + (fetch'.members - fetch.members)]_vars

\* 1000 members have been returned in four pages of 250 for a limit of 1500
\* on a group of 5000
C29_Witness ==
    /\ fetch.pc = "returned"
    /\ fetch.limit_arg = 1500
    /\ fetch.group_info.members_count = 5000
    /\ ~fetch.oversize
    /\ fetch.result = 1000
    /\ fetch.offset = 1000

----------------------------------------------------------------------------
(* SpecDatabase: the tables analyses and user_stats of database.py under   *)
(* save_analysis, delete_analysis and cleanup_old_data.  A row of analyses *)
(* is [id, user_id, created_at]; user_stats maps the user_id of each of    *)
(* its rows to total_analyses.  Time is counted in days.                   *)

\* the users that save and delete analyses
Users == {1, 2}

\* save_analysis(uid, ...) succeeds: a row is inserted with the next id of
\* the table and created_at = utcnow(), and the user's total_analyses starts
\* at 1 or grows by one
save_analysis(uid) ==
    /\ Cardinality(analyses) < MaxRows
    /\ LET next_id == IF analyses = {} THEN 1
                      ELSE 1 + CHOOSE n \in {row.id : row \in analyses} :
                                   \A row \in analyses : row.id <= n
       IN  analyses' = analyses \cup
               {[id |-> next_id, user_id |-> uid, created_at |-> db_clock]}
    /\ user_stats' =
           IF uid \in DOMAIN user_stats
           THEN [user_stats EXCEPT ![uid] = @ + 1]
           ELSE [u \in DOMAIN user_stats \cup {uid} |->
                    IF u = uid THEN 1 ELSE user_stats[u]]
    /\ UNCHANGED <<user_sessions, handlers, fetch, db_clock>>
    /\ UNCHANGED analyze_vars
    /\ UNCHANGED compare_vars

\* delete_analysis(analysis_id, uid): the row with this id and this user is
\* deleted and the user's total_analyses, when above 0, drops by one; with
\* no such row nothing changes and False is returned
delete_analysis(analysis_id, uid) ==
    /\ analyses # {}
    /\ LET found == {row \in analyses : row.id = analysis_id /\ row.user_id = uid}
       IN  IF found = {}
           THEN UNCHANGED <<analyses, user_stats>>
           ELSE /\ analyses' = analyses \ found
                /\ user_stats' =
                       IF uid \in DOMAIN user_stats /\ user_stats[uid] > 0
                       THEN [user_stats EXCEPT ![uid] = @ - 1]
                       ELSE user_stats
    /\ UNCHANGED <<user_sessions, handlers, fetch, db_clock>>
    /\ UNCHANGED analyze_vars
    /\ UNCHANGED compare_vars

\* cleanup_old_data(days): every row with created_at < utcnow() - days is
\* deleted; user_stats is not touched
cleanup_old_data(days) ==
    /\ analyses # {}
    /\ LET cutoff_date == db_clock - days
       IN  analyses' = {row \in analyses : ~(row.created_at < cutoff_date)}
    /\ UNCHANGED <<user_sessions, handlers, fetch, user_stats, db_clock>>
    /\ UNCHANGED analyze_vars
    /\ UNCHANGED compare_vars

\* a day passes between two calls
Day_passes ==
    /\ db_clock < MaxClock
    /\ db_clock' = db_clock + 1
    /\ UNCHANGED <<user_sessions, handlers, fetch, analyses, user_stats>>
    /\ UNCHANGED analyze_vars
    /\ UNCHANGED compare_vars

InitDatabase ==
    /\ clock = DefaultClock
    /\ members = <<>>
    /\ pc = "idle"
    /\ pending = {}
    /\ results = EmptyDict
    /\ analysis = EmptyDict
    /\ exc = ""
    /\ NoCompare
    /\ NoService

NextDatabase ==
    \/ \E uid \in Users : save_analysis(uid)
    \/ \E analysis_id \in 1..(MaxRows + 1), uid \in Users : delete_analysis(analysis_id, uid)
    \* a retention of one day, and the default of 30 days
    \/ \E days \in {1, 30} : cleanup_old_data(days)
    \/ Day_passes

SpecDatabase == InitDatabase /\ [][NextDatabase]_vars

\* the rows of analyses that belong to the user
RowsOf(uid) == {row \in analyses : row.user_id = uid}

\* C30: after any sequence of successful save_analysis, delete_analysis and
\* cleanup_old_data calls, total_analyses of every user in user_stats is the
\* number of rows of analyses stored for that user.
C30_TotalIsRowCount ==
    \A uid \in DOMAIN user_stats : user_stats[uid] = Cardinality(RowsOf(uid))
====
